---- MODULE Spec2Model ----
(***************************************************************************)
(* A model of tiny_trainer: the model facade (CodeGenerationModel and its  *)
(* Transformer, src/src/model/mod.rs) and the WGSL tokenizer               *)
(* (src/src/tokenizer/mod.rs).                                             *)
(*                                                                         *)
(* Matrices are modelled by their shapes <<rows, cols>>, vectors by their  *)
(* lengths; an Option<T> is a sequence of length 0 (None) or 1 (Some).     *)
(* A panic (assert!, index out of bounds, arithmetic overflow, remainder   *)
(* by zero) is the outcome "panicked" of the call that raises it.          *)
(***************************************************************************)
EXTENDS Integers, Sequences, FiniteSets, TLC

VARIABLES
    ctor,       \* the CodeGenerationModel::new call: its arguments and outcome
    model,      \* Option<CodeGenerationModel>: the object new returned
    fwd,        \* the last CodeGenerationModel::forward call on model
    nparams,    \* Option<usize>: what the last num_parameters call returned
    cfg,        \* Option<ModelConfig>: the config the model was built from, if any
    trained,    \* Option<TrainingResults>: what the last Trainer::train call returned
    sm,         \* Option: the last softmax_vec call, its argument and its result
    lex,        \* Option: a running tokenize call, its text, offset and tokens
    run,        \* Option: a running Transformer::forward call, its loops and states
    att,        \* Option: a running MultiHeadAttention::forward call, its head loop
    ds,         \* Option: the last WGSLDataset::split call, its arguments and outcome
    twin,       \* Option: two models constructed from the same arguments
    tok,        \* the WGSLTokenizer that WGSLTokenizer::new returned
    file,       \* Option<JSON document>: what save wrote at the path
    loaded,     \* Option<WGSLTokenizer>: the object WGSLTokenizer::load returned
    last,       \* the tokenizer call that has returned and not yet been consumed
    seen,       \* history: the tokens of every corpus fitted on tok so far
    saved,      \* history: Option<WGSLTokenizer>, the tokenizer the last save wrote
    fits        \* history: the number of fit calls made so far

facade_vars == <<ctor, model, fwd, nparams, cfg, trained>>
tokenizer_vars == <<tok, file, loaded, last, seen, saved, fits>>
pure_vars == <<sm, lex, run, att, ds, twin>>
vars == <<ctor, model, fwd, nparams, cfg, trained, sm, lex, run, att, ds, twin,
          tok, file, loaded, last, seen, saved, fits>>

----------------------------------------------------------------------------
(* Bounds of the model.                                                    *)

\* vocab_size ranges over 0..MaxVocab, input ids over 0..MaxVocab
MaxVocab == 3
\* max_seq_len ranges over 0..MaxSeq, inputs have at most MaxSeq ids
MaxSeq == 2
\* d_model and nhead range over 0..MaxDim
MaxDim == 2
\* num_layers ranges over 0..MaxLayers
MaxLayers == 1
\* dim_feedforward ranges over 0..MaxFF
MaxFF == 1

----------------------------------------------------------------------------
(* Helpers.                                                                *)

None == <<>>
Some(x) == <<x>>
IsSome(o) == Len(o) = 1
unwrap_or(o, d) == IF Len(o) = 1 THEN o[1] ELSE d

Min(a, b) == IF a < b THEN a ELSE b

\* the first n elements of s (Iterator::take)
take(s, n) == SubSeq(s, 1, Min(n, Len(s)))

RECURSIVE SumSeq(_)
SumSeq(s) == IF s = <<>> THEN 0 ELSE s[1] + SumSeq(Tail(s))

\* all sequences over S of length at most n
SeqsUpTo(S, n) == UNION {[1..k -> S] : k \in 0..n}

----------------------------------------------------------------------------
(* src/src/tokenizer/mod.rs: SpecialToken                                  *)

SpecialTokens == <<"Padding", "Unknown", "StartOfSequence", "EndOfSequence">>

token_id(special) ==
    CASE special = "Padding" -> 0
      [] special = "Unknown" -> 1
      [] special = "StartOfSequence" -> 2
      [] special = "EndOfSequence" -> 3

----------------------------------------------------------------------------
(* src/src/model/mod.rs: constants                                         *)

DEFAULT_MAX_SEQ_LEN == 512
DEFAULT_DIM_FEEDFORWARD == 2048

Architectures == {"Transformer", "LSTM"}

----------------------------------------------------------------------------
(* Parameter bundles: each holds the shapes of the arrays `new` allocates. *)

\* Array2::len / Array1::len
len2(shape) == shape[1] * shape[2]

MultiHeadAttention_new(d_model, nhead) ==
    [d_model |-> d_model, nhead |-> nhead, head_dim |-> d_model \div nhead,
     w_q |-> <<d_model, d_model>>, w_k |-> <<d_model, d_model>>,
     w_v |-> <<d_model, d_model>>, w_o |-> <<d_model, d_model>>,
     b_q |-> d_model, b_k |-> d_model, b_v |-> d_model, b_o |-> d_model]

MultiHeadAttention_num_parameters(a) ==
    len2(a.w_q) + len2(a.w_k) + len2(a.w_v) + len2(a.w_o)
        + a.b_q + a.b_k + a.b_v + a.b_o

Linear_new(in_dim, out_dim) ==
    [weight |-> <<in_dim, out_dim>>, bias |-> out_dim]

Linear_num_parameters(l) == len2(l.weight) + l.bias

FeedForward_new(d_model, hidden_dim) ==
    [linear1 |-> Linear_new(d_model, hidden_dim),
     linear2 |-> Linear_new(hidden_dim, d_model)]

FeedForward_num_parameters(f) ==
    Linear_num_parameters(f.linear1) + Linear_num_parameters(f.linear2)

LayerNorm_new(dim) == [gamma |-> dim, beta |-> dim]

LayerNorm_num_parameters(n) == n.gamma + n.beta

EncoderLayer_new(d_model, nhead, dim_feedforward) ==
    [self_attn |-> MultiHeadAttention_new(d_model, nhead),
     norm1 |-> LayerNorm_new(d_model),
     feedforward |-> FeedForward_new(d_model, dim_feedforward),
     norm2 |-> LayerNorm_new(d_model)]

EncoderLayer_num_parameters(l) ==
    MultiHeadAttention_num_parameters(l.self_attn)
        + FeedForward_num_parameters(l.feedforward)
        + LayerNorm_num_parameters(l.norm1)
        + LayerNorm_num_parameters(l.norm2)

DecoderLayer_new(d_model, nhead, dim_feedforward) ==
    [self_attn |-> MultiHeadAttention_new(d_model, nhead),
     norm1 |-> LayerNorm_new(d_model),
     cross_attn |-> MultiHeadAttention_new(d_model, nhead),
     norm2 |-> LayerNorm_new(d_model),
     feedforward |-> FeedForward_new(d_model, dim_feedforward),
     norm3 |-> LayerNorm_new(d_model)]

\* a decoder layer count that forgets the third layer norm
DecoderLayer_num_parameters_no_norm3(l) ==
    MultiHeadAttention_num_parameters(l.self_attn)
        + MultiHeadAttention_num_parameters(l.cross_attn)
        + FeedForward_num_parameters(l.feedforward)
        + LayerNorm_num_parameters(l.norm1)
        + LayerNorm_num_parameters(l.norm2)

DecoderLayer_num_parameters(l) ==
    MultiHeadAttention_num_parameters(l.self_attn)
        + MultiHeadAttention_num_parameters(l.cross_attn)
        + FeedForward_num_parameters(l.feedforward)
        + LayerNorm_num_parameters(l.norm1)
        + LayerNorm_num_parameters(l.norm2)
        + LayerNorm_num_parameters(l.norm3)

----------------------------------------------------------------------------
(* Transformer                                                             *)

\* the assert! of Transformer::new; d_model % 0 panics as well
Transformer_new_panics(d_model, nhead) ==
    \/ nhead = 0
    \/ d_model % nhead # 0

Transformer_new(vocab_size, d_model, nhead, num_layers, max_seq_len, dim_feedforward) ==
    [vocab_size |-> vocab_size,
     d_model |-> d_model,
     nhead |-> nhead,
     num_layers |-> num_layers,
     max_seq_len |-> max_seq_len,
     dim_feedforward |-> dim_feedforward,
     token_embedding |-> <<vocab_size, d_model>>,
     positional_encoding |-> <<max_seq_len, d_model>>,
     encoder_layers |->
        [i \in 1..num_layers |-> EncoderLayer_new(d_model, nhead, dim_feedforward)],
     decoder_layers |->
        [i \in 1..num_layers |-> DecoderLayer_new(d_model, nhead, dim_feedforward)],
     final_linear_weight |-> <<d_model, vocab_size>>,
     final_linear_bias |-> vocab_size,
     \* the values of the weights: StdRng::seed_from_u64(42) sampled with
     \* Uniform::new(-0.1f32, 0.1f32)
     parameters |-> [seed |-> 42, low |-> "-0.1", high |-> "0.1"]]

Transformer_num_parameters(t) ==
    len2(t.token_embedding) + len2(t.final_linear_weight) + t.final_linear_bias
        + SumSeq([i \in 1..Len(t.encoder_layers) |->
                    EncoderLayer_num_parameters(t.encoder_layers[i])])
        + SumSeq([i \in 1..Len(t.decoder_layers) |->
                    DecoderLayer_num_parameters(t.decoder_layers[i])])

\* a sanitization that forgets the remapping of out-of-range ids
sanitize_ids_no_remap(t, ids) == take(ids, t.max_seq_len)

\* a sanitization that forgets the truncation to max_seq_len
sanitize_ids_no_take(t, ids) ==
    [k \in 1..Len(ids) |->
        IF ids[k] < t.vocab_size THEN ids[k] ELSE token_id("Unknown")]

sanitize_ids(t, ids) ==
    LET taken == take(ids, t.max_seq_len)
    IN  [k \in 1..Len(taken) |->
            IF taken[k] < t.vocab_size THEN taken[k] ELSE token_id("Unknown")]

\* embed: the rows of token_embedding and of positional_encoding it reads, in
\* order (positions count from 0), and whether a row index is out of bounds
embed_token_rows(t, input_ids) == input_ids

embed_pos_rows(t, input_ids) ==
    [k \in 1..Len(input_ids) |-> (k - 1) % t.max_seq_len]

embed_panics(t, input_ids) ==
    \E k \in 1..Len(input_ids) :
        \/ input_ids[k] >= t.token_embedding[1]
        \/ t.max_seq_len = 0
        \/ (k - 1) % t.max_seq_len >= t.positional_encoding[1]

embed(t, input_ids) == <<Len(input_ids), t.d_model>>

----------------------------------------------------------------------------
(* Shape arithmetic of ndarray: a shape is <<rows, cols>>; ShapeErr is the *)
(* panic ndarray raises on incompatible shapes or an index out of bounds.  *)

ShapeErr == <<>>

dot(a, b) ==
    IF a = ShapeErr \/ b = ShapeErr THEN ShapeErr
    ELSE IF a[2] # b[1] THEN ShapeErr
    ELSE <<a[1], b[2]>>

\* matrix + vector (broadcast over rows)
add_bias(a, n) ==
    IF a = ShapeErr THEN ShapeErr
    ELSE IF a[2] # n THEN ShapeErr
    ELSE a

\* matrix + matrix
add(a, b) ==
    IF a = ShapeErr \/ b = ShapeErr THEN ShapeErr
    ELSE IF a # b THEN ShapeErr
    ELSE a

\* a mask is Some(function on (1..q) \X (1..k)) with entries ZERO or NEG_INFINITY
ZERO == "0.0"
NEG_INFINITY == "-inf"

mask_shape(m) == <<m.rows, m.cols>>

\* f32 addition on {0.0, -inf}
f32_add(x, y) == IF x = NEG_INFINITY \/ y = NEG_INFINITY THEN NEG_INFINITY ELSE ZERO

MultiHeadAttention_forward(a, query, key, value, mask) ==
    LET query_proj == add_bias(dot(query, a.w_q), a.b_q)
        key_proj   == add_bias(dot(key, a.w_k), a.b_k)
        value_proj == add_bias(dot(value, a.w_v), a.b_v)
    IN  IF query_proj = ShapeErr \/ key_proj = ShapeErr \/ value_proj = ShapeErr
        THEN ShapeErr
        ELSE
        LET query_len == query_proj[1]
            key_len   == key_proj[1]
            context   == <<query_len, a.d_model>>
            \* slices start..end of the heads stay inside the projections
            slice_ok  == a.nhead * a.head_dim <= a.d_model
            \* mask[[i, j]] is read for every i < query_len, j < key_len
            mask_ok   == \/ ~IsSome(mask)
                         \/ query_len = 0 \/ key_len = 0
                         \/ (mask[1].rows >= query_len /\ mask[1].cols >= key_len)
            \* v_head[[j, d]] is read for every j < key_len
            value_ok  == key_len = 0 \/ query_len = 0 \/ value_proj[1] >= key_len
        IN  IF slice_ok /\ mask_ok /\ value_ok
            THEN add_bias(dot(context, a.w_o), a.b_o)
            ELSE ShapeErr

Linear_forward(l, x) == add_bias(dot(x, l.weight), l.bias)

FeedForward_forward(f, x) ==
    Linear_forward(f.linear2, Linear_forward(f.linear1, x))

LayerNorm_forward(n, x) ==
    IF x = ShapeErr THEN ShapeErr
    ELSE IF x[1] > 0 /\ (n.gamma < x[2] \/ n.beta < x[2]) THEN ShapeErr
    ELSE x

EncoderLayer_forward(l, x, mask) ==
    LET attn_output == MultiHeadAttention_forward(l.self_attn, x, x, x, mask)
        residual1   == add(x, attn_output)
        normed1     == LayerNorm_forward(l.norm1, residual1)
        ff_output   == FeedForward_forward(l.feedforward, normed1)
        residual2   == add(normed1, ff_output)
    IN  LayerNorm_forward(l.norm2, residual2)

DecoderLayer_forward(l, x, encoder_states, self_mask, cross_mask) ==
    LET self_attn  == MultiHeadAttention_forward(l.self_attn, x, x, x, self_mask)
        residual1  == add(x, self_attn)
        normed1    == LayerNorm_forward(l.norm1, residual1)
        cross_attn == MultiHeadAttention_forward(l.cross_attn, normed1,
                          encoder_states, encoder_states, cross_mask)
        residual2  == add(normed1, cross_attn)
        normed2    == LayerNorm_forward(l.norm2, residual2)
        ff_output  == FeedForward_forward(l.feedforward, normed2)
        residual3  == add(normed2, ff_output)
    IN  LayerNorm_forward(l.norm3, residual3)

\* the encoder loop of Transformer::forward: layers 1..k applied in order
RECURSIVE encoder_stack(_, _, _, _)
encoder_stack(layers, k, x, mask) ==
    IF k = 0 THEN x
    ELSE EncoderLayer_forward(layers[k], encoder_stack(layers, k - 1, x, mask), mask)

\* the decoder loop of Transformer::forward
RECURSIVE decoder_stack(_, _, _, _, _, _)
decoder_stack(layers, k, x, encoder_states, self_mask, cross_mask) ==
    IF k = 0 THEN x
    ELSE DecoderLayer_forward(layers[k],
            decoder_stack(layers, k - 1, x, encoder_states, self_mask, cross_mask),
            encoder_states, self_mask, cross_mask)

\* a padding mask that masks the query rows of the padding ids
self_padding_mask_by_row(ids) ==
    [rows |-> Len(ids), cols |-> Len(ids),
     at |-> [i \in 1..Len(ids), j \in 1..Len(ids) |->
                IF ids[i] = token_id("Padding") THEN NEG_INFINITY ELSE ZERO]]

self_padding_mask(ids) ==
    [rows |-> Len(ids), cols |-> Len(ids),
     at |-> [i \in 1..Len(ids), j \in 1..Len(ids) |->
                IF ids[j] = token_id("Padding") THEN NEG_INFINITY ELSE ZERO]]

cross_padding_mask(query_len, encoder_ids) ==
    [rows |-> query_len, cols |-> Len(encoder_ids),
     at |-> [i \in 1..query_len, j \in 1..Len(encoder_ids) |->
                IF encoder_ids[j] = token_id("Padding") THEN NEG_INFINITY ELSE ZERO]]

\* a look-ahead mask that leaves the next position open
look_ahead_mask_next_open(seq_len) ==
    [rows |-> seq_len, cols |-> seq_len,
     at |-> [i \in 1..seq_len, j \in 1..seq_len |->
                IF j > i + 1 THEN NEG_INFINITY ELSE ZERO]]

look_ahead_mask(seq_len) ==
    [rows |-> seq_len, cols |-> seq_len,
     at |-> [i \in 1..seq_len, j \in 1..seq_len |->
                IF j > i THEN NEG_INFINITY ELSE ZERO]]

\* assert_eq!(a.shape(), b.shape())
combine_masks_panics(a, b) == mask_shape(a) # mask_shape(b)

combine_masks(a, b) ==
    [rows |-> a.rows, cols |-> a.cols,
     at |-> [i \in 1..a.rows, j \in 1..a.cols |-> f32_add(a.at[i, j], b.at[i, j])]]

----------------------------------------------------------------------------
(* f32 values and softmax_vec. An f32 is <<kind, n>>: NaN, the two         *)
(* infinities, or a finite value n in the units of the scores. A weight    *)
(* softmax_vec returns is the quotient <<num, den>> of its division, which *)
(* is NaN when den is 0. The rounding of f32 arithmetic is left out.       *)

\* exp(d) is 0.0 for d below -ExpUnderflow units (f32::exp underflows)
ExpUnderflow == 2

NaN == <<"nan", 0>>
NegInf == <<"-inf", 0>>
PosInf == <<"+inf", 0>>
Fin(n) == <<"fin", n>>

is_finite(v) == v[1] = "fin"

\* if v.is_finite() && v > max { max = v }
pick_max(v, max) ==
    IF is_finite(v) /\ (max = NegInf \/ v[2] > max[2]) THEN v ELSE max

\* the first loop of softmax_vec over values[1..k], from max = NEG_INFINITY
RECURSIVE softmax_max(_, _)
softmax_max(values, k) ==
    IF k = 0 THEN NegInf ELSE pick_max(values[k], softmax_max(values, k - 1))

RECURSIVE Pow2(_)
Pow2(n) == IF n <= 0 THEN 1 ELSE 2 * Pow2(n - 1)

\* f32::exp of d <= 0, in units of 2^-ExpUnderflow: 1.0 at 0, halved by
\* each unit below it, 0.0 below -ExpUnderflow
exp(d) == IF d < 0 - ExpUnderflow THEN 0 ELSE Pow2(ExpUnderflow + d)

\* exponentials that leave a non-finite score the weight of the maximum
softmax_exps_keep_masked(values, max) ==
    [k \in 1..Len(values) |->
        IF is_finite(values[k]) THEN exp(values[k][2] - max[2]) ELSE exp(0)]

\* the second loop of softmax_vec: (v - max).exp() for a finite v, else 0.0
softmax_exps(values, max) ==
    [k \in 1..Len(values) |->
        IF is_finite(values[k]) THEN exp(values[k][2] - max[2]) ELSE 0]

\* every entry 1.0 / len
uniform(len) == [k \in 1..len |-> <<1, len>>]

\* if sum == 0.0 the uniform row, else v / sum for every v
softmax_divide(exps, sum) ==
    IF sum = 0 THEN uniform(Len(exps))
    ELSE [k \in 1..Len(exps) |-> <<exps[k], sum>>]

softmax_from_max(values, max) ==
    IF ~is_finite(max) THEN uniform(Len(values))
    ELSE softmax_divide(softmax_exps(values, max), SumSeq(softmax_exps(values, max)))

\* a softmax_vec without the two uniform fallbacks: a row with no finite
\* score is divided by its zero sum
softmax_vec_no_fallback(values) ==
    IF values = <<>> THEN <<>>
    ELSE [k \in 1..Len(values) |->
            <<softmax_exps(values, softmax_max(values, Len(values)))[k],
              SumSeq(softmax_exps(values, softmax_max(values, Len(values))))>>]

softmax_vec(values) ==
    IF values = <<>> THEN <<>>
    ELSE softmax_from_max(values, softmax_max(values, Len(values)))

(* The attention weights of MultiHeadAttention::forward. The parameters    *)
(* are drawn in (-0.1, 0.1) from a fixed seed and layer normalization      *)
(* bounds the states, so the raw scores are finite numbers fixed by the    *)
(* call; the model takes for them values that favour the later keys, flat  *)
(* for the first head and steeper for each further head and query row.     *)

\* q_head.row(i).dot(&k_head.row(j)) / scale for the (1-based) head, query
\* row i and key row j of key_len
score(head, i, j, key_len) == Fin(0 - (head - 1) * (i + 1) * (key_len - j))

\* a score that the mask is not added to
masked_score_unmasked(s, mask, i, j) == s

\* score += mask[[i, j]]: a finite score plus 0.0 or NEG_INFINITY
masked_score(s, mask, i, j) ==
    IF IsSome(mask) /\ mask[1].at[i, j] = NEG_INFINITY THEN NegInf ELSE s

\* the row of scores of query row i, then softmax_vec(row)
attention_row(mask, head, i, key_len) ==
    softmax_vec([j \in 1..key_len |->
                    masked_score(score(head, i, j, key_len), mask, i, j)])

\* weights[[i, j]] of every head
attention_weights(a, query_len, key_len, mask) ==
    [head \in 1..a.nhead |->
        [i \in 1..query_len |-> attention_row(mask, head, i, key_len)]]

\* context[[i, start + d]] += weight * v_head[[j, d]] unless weight == 0.0:
\* the context is finite when no weight is NaN
weights_finite(weights) ==
    \A head \in 1..Len(weights) : \A i \in 1..Len(weights[head]) :
        \A j \in 1..Len(weights[head][i]) : weights[head][i][j][2] # 0

\* the attention weights of every layer of Transformer::forward: of the
\* encoder self-attention, the decoder self-attention and the
\* cross-attention
Transformer_attention(t, encoder_ids, decoder_ids, masks) ==
    [encoder |->
        [l \in 1..Len(t.encoder_layers) |->
            attention_weights(t.encoder_layers[l].self_attn, Len(encoder_ids),
                              Len(encoder_ids), Some(masks.encoder_self_mask))],
     decoder_self |->
        [l \in 1..Len(t.decoder_layers) |->
            attention_weights(t.decoder_layers[l].self_attn, Len(decoder_ids),
                              Len(decoder_ids), Some(masks.decoder_mask))],
     cross |->
        [l \in 1..Len(t.decoder_layers) |->
            attention_weights(t.decoder_layers[l].cross_attn, Len(decoder_ids),
                              Len(encoder_ids), Some(masks.cross_mask))]]

NoAttention == [encoder |-> <<>>, decoder_self |-> <<>>, cross |-> <<>>]

\* whether the logits are finite: sums and products of finite parameters,
\* finite states and the weights, normalized by sqrt(variance + eps) > 0
logits_values(attention) ==
    IF /\ \A l \in 1..Len(attention.encoder) : weights_finite(attention.encoder[l])
       /\ \A l \in 1..Len(attention.decoder_self) :
             weights_finite(attention.decoder_self[l])
       /\ \A l \in 1..Len(attention.cross) : weights_finite(attention.cross[l])
    THEN "finite" ELSE "nan"

\* the ids embed looks up in token_embedding, up to and including the first
\* one that is out of bounds
RECURSIVE rows_read(_, _)
rows_read(t, input_ids) ==
    IF input_ids = <<>> THEN <<>>
    ELSE IF input_ids[1] >= t.token_embedding[1] THEN <<input_ids[1]>>
    ELSE <<input_ids[1]>> \o rows_read(t, Tail(input_ids))

NoMasks == None

Transformer_forward(t, encoder_input, decoder_input) ==
    LET encoder_ids == sanitize_ids(t, encoder_input)
        decoder_ids == sanitize_ids(t, decoder_input)
        enc_panics  == embed_panics(t, encoder_ids)
        dec_panics  == embed_panics(t, decoder_ids)
        token_rows  == IF enc_panics THEN rows_read(t, encoder_ids)
                       ELSE rows_read(t, encoder_ids) \o rows_read(t, decoder_ids)
        pos_rows    == IF enc_panics \/ dec_panics THEN <<>>
                       ELSE embed_pos_rows(t, encoder_ids) \o embed_pos_rows(t, decoder_ids)
        encoder_self_mask == self_padding_mask(encoder_ids)
        decoder_self_mask == self_padding_mask(decoder_ids)
        look_ahead        == look_ahead_mask(Len(decoder_ids))
        decoder_mask      == combine_masks(decoder_self_mask, look_ahead)
        cross_mask        == cross_padding_mask(Len(decoder_ids), encoder_ids)
        encoder_states == encoder_stack(t.encoder_layers, Len(t.encoder_layers),
                              embed(t, encoder_ids), Some(encoder_self_mask))
        decoder_states == decoder_stack(t.decoder_layers, Len(t.decoder_layers),
                              embed(t, decoder_ids), encoder_states,
                              Some(decoder_mask), Some(cross_mask))
        logits == add_bias(dot(decoder_states, t.final_linear_weight), t.final_linear_bias)
    IN  IF enc_panics \/ dec_panics
        THEN [panicked |-> TRUE, encoder_ids |-> encoder_ids, decoder_ids |-> decoder_ids,
              token_rows |-> token_rows, pos_rows |-> pos_rows,
              masks |-> NoMasks, logits |-> ShapeErr]
        ELSE IF combine_masks_panics(decoder_self_mask, look_ahead)
        THEN [panicked |-> TRUE, encoder_ids |-> encoder_ids, decoder_ids |-> decoder_ids,
              token_rows |-> token_rows, pos_rows |-> pos_rows,
              masks |-> NoMasks, logits |-> ShapeErr]
        ELSE [panicked |-> logits = ShapeErr,
              encoder_ids |-> encoder_ids, decoder_ids |-> decoder_ids,
              token_rows |-> token_rows, pos_rows |-> pos_rows,
              masks |-> Some([encoder_self_mask |-> encoder_self_mask,
                              decoder_self_mask |-> decoder_self_mask,
                              look_ahead |-> look_ahead,
                              decoder_mask |-> decoder_mask,
                              cross_mask |-> cross_mask]),
              logits |-> logits]

----------------------------------------------------------------------------
(* CodeGenerationModel                                                     *)

\* whether CodeGenerationModel::new panics instead of returning
CodeGenerationModel_new_panics(architecture, vocab_size, d_model, nhead, num_layers, dim_feedforward, max_seq_len) ==
    /\ architecture = "Transformer"
    /\ Transformer_new_panics(d_model, nhead)

CodeGenerationModel_new(architecture, vocab_size, d_model, nhead, num_layers, dim_feedforward, max_seq_len) ==
    [architecture |-> architecture,
     vocab_size |-> vocab_size,
     d_model |-> d_model,
     nhead |-> nhead,
     num_layers |-> num_layers,
     max_seq_len |-> unwrap_or(max_seq_len, DEFAULT_MAX_SEQ_LEN),
     dim_feedforward |-> unwrap_or(dim_feedforward, DEFAULT_DIM_FEEDFORWARD),
     transformer |->
        IF architecture = "Transformer"
        THEN Some(Transformer_new(vocab_size, d_model, nhead, num_layers,
                                  unwrap_or(max_seq_len, DEFAULT_MAX_SEQ_LEN),
                                  unwrap_or(dim_feedforward, DEFAULT_DIM_FEEDFORWARD)))
        ELSE None]

NoForward ==
    [outcome |-> "none", input |-> <<>>, encoder_ids |-> <<>>, decoder_ids |-> <<>>,
     token_rows |-> <<>>, pos_rows |-> <<>>, masks |-> NoMasks,
     logits |-> ShapeErr, last_row |-> None, output_len |-> None,
     attention |-> NoAttention, values |-> "none"]

\* the record of one forward call: its outcome, what it returned and the
\* intermediate values of the call
\* a forward that returns the first row of the logits
last_logits_first_row(input_ids, r, attention) ==
    [outcome |-> "returned", input |-> input_ids,
     encoder_ids |-> r.encoder_ids, decoder_ids |-> r.decoder_ids,
     token_rows |-> r.token_rows, pos_rows |-> r.pos_rows,
     masks |-> r.masks, logits |-> r.logits,
     last_row |-> Some(0),
     output_len |-> Some(r.logits[2]),
     attention |-> attention, values |-> logits_values(attention)]

\* logits.row(logits.nrows() - 1).to_vec() of the run r of
\* Transformer::forward with the attention weights it computed
last_logits(input_ids, r, attention) ==
    [outcome |-> "returned", input |-> input_ids,
     encoder_ids |-> r.encoder_ids, decoder_ids |-> r.decoder_ids,
     token_rows |-> r.token_rows, pos_rows |-> r.pos_rows,
     masks |-> r.masks, logits |-> r.logits,
     last_row |-> Some(r.logits[1] - 1),
     output_len |-> Some(r.logits[2]),
     attention |-> attention, values |-> logits_values(attention)]

\* the result of CodeGenerationModel::forward from the run r of
\* Transformer::forward
transformer_logits(t, input_ids, r) ==
    IF r.panicked \/ r.logits[1] = 0
    \* logits.nrows() - 1 on an empty matrix: the subtraction overflows
    \* (or, wrapped, row() is out of bounds)
    THEN [outcome |-> "panicked", input |-> input_ids,
          encoder_ids |-> r.encoder_ids, decoder_ids |-> r.decoder_ids,
          token_rows |-> r.token_rows, pos_rows |-> r.pos_rows,
          masks |-> r.masks, logits |-> r.logits,
          last_row |-> None, output_len |-> None,
          attention |-> NoAttention, values |-> "none"]
    ELSE last_logits(input_ids, r, Transformer_attention(t, r.encoder_ids, r.decoder_ids, r.masks[1]))

\* a forward that decodes from the input without the start-of-sequence id
CodeGenerationModel_forward_no_sos(m, input_ids) ==
    IF m.architecture = "Transformer"
    THEN IF ~IsSome(m.transformer)
         THEN [NoForward EXCEPT !.outcome = "panicked", !.input = input_ids]
         ELSE transformer_logits(m.transformer[1], input_ids,
                  Transformer_forward(m.transformer[1], input_ids, input_ids))
    ELSE [NoForward EXCEPT !.outcome = "returned", !.input = input_ids,
                           !.output_len = Some(m.vocab_size),
                           !.values = "zeros"]

CodeGenerationModel_forward(m, input_ids) ==
    IF m.architecture = "Transformer"
    THEN IF ~IsSome(m.transformer)
         THEN [NoForward EXCEPT !.outcome = "panicked", !.input = input_ids]
         ELSE transformer_logits(m.transformer[1], input_ids,
                  Transformer_forward(m.transformer[1], input_ids,
                      <<token_id("StartOfSequence")>> \o input_ids))
    \* vec![0.0; self.vocab_size]
    ELSE [NoForward EXCEPT !.outcome = "returned", !.input = input_ids,
                           !.output_len = Some(m.vocab_size),
                           !.values = "zeros"]

\* a count that takes the LSTM to hold an embedding table
CodeGenerationModel_num_parameters_lstm_table(m) ==
    IF m.architecture = "Transformer"
    THEN IF IsSome(m.transformer)
         THEN Transformer_num_parameters(m.transformer[1])
         ELSE 0
    ELSE m.vocab_size * m.d_model

CodeGenerationModel_num_parameters(m) ==
    IF m.architecture = "Transformer"
    THEN IF IsSome(m.transformer)
         THEN Transformer_num_parameters(m.transformer[1])
         ELSE 0
    ELSE 0

----------------------------------------------------------------------------
(* The model facade as a state machine: new, then forward and              *)
(* num_parameters calls in any order.                                      *)

VocabSizes == 0..MaxVocab
Dims == 0..MaxDim
LayerCounts == 0..MaxLayers
FFDims == {None} \cup {Some(h) : h \in 0..MaxFF}
SeqLens == {None} \cup {Some(n) : n \in 0..MaxSeq}
InputIds == 0..MaxVocab
Inputs == SeqsUpTo(InputIds, MaxSeq)

\* the arguments of new under which forward is explored: every architecture,
\* vocabulary size and maximum sequence length, at the widest model
ForwardConfigs ==
    [architecture : Architectures, vocab_size : VocabSizes,
     d_model : {MaxDim}, nhead : {MaxDim}, num_layers : {MaxLayers},
     dim_feedforward : {Some(MaxFF)}, max_seq_len : SeqLens]

\* the arguments of new under which construction and num_parameters are
\* explored: every architecture, vocabulary size, width, head count, depth
\* and feed-forward width
ParamConfigs ==
    [architecture : Architectures, vocab_size : VocabSizes,
     d_model : Dims, nhead : Dims, num_layers : LayerCounts,
     dim_feedforward : FFDims, max_seq_len : {None, Some(MaxSeq)}]

NoCall ==
    [outcome |-> "none", architecture |-> "Transformer", vocab_size |-> 0,
     d_model |-> 0, nhead |-> 0, num_layers |-> 0,
     dim_feedforward |-> None, max_seq_len |-> None]

\* no model constructed yet
FacadeIdle ==
    /\ ctor = NoCall
    /\ model = None
    /\ fwd = NoForward
    /\ nparams = None
    /\ cfg = None
    /\ trained = None

\* no tokenizer in use
TokenizerIdle ==
    /\ tok = None
    /\ file = None
    /\ loaded = None
    /\ last = None
    /\ seen = {}
    /\ saved = None
    /\ fits = 0

\* no softmax_vec or tokenize call under way
PureIdle ==
    /\ sm = None
    /\ lex = None
    /\ run = None
    /\ att = None
    /\ ds = None
    /\ twin = None

Init == FacadeIdle /\ TokenizerIdle /\ PureIdle

New(configs) ==
    /\ ctor.outcome = "none"
    /\ \E c \in configs :
            LET panics == CodeGenerationModel_new_panics(c.architecture, c.vocab_size,
                              c.d_model, c.nhead, c.num_layers, c.dim_feedforward,
                              c.max_seq_len)
            IN  /\ ctor' = [outcome |-> IF panics THEN "panicked" ELSE "returned",
                            architecture |-> c.architecture,
                            vocab_size |-> c.vocab_size,
                            d_model |-> c.d_model, nhead |-> c.nhead,
                            num_layers |-> c.num_layers,
                            dim_feedforward |-> c.dim_feedforward,
                            max_seq_len |-> c.max_seq_len]
                /\ model' = IF panics THEN None
                            ELSE Some(CodeGenerationModel_new(c.architecture,
                                        c.vocab_size, c.d_model, c.nhead, c.num_layers,
                                        c.dim_feedforward, c.max_seq_len))
    /\ cfg' = None
    /\ UNCHANGED <<fwd, nparams, trained>>
    /\ UNCHANGED tokenizer_vars
    /\ UNCHANGED pure_vars

Forward ==
    /\ IsSome(model)
    /\ \E input_ids \in Inputs :
        fwd' = CodeGenerationModel_forward(model[1], input_ids)
    /\ UNCHANGED <<ctor, model, nparams, cfg, trained>>
    /\ UNCHANGED tokenizer_vars
    /\ UNCHANGED pure_vars

NumParameters ==
    /\ IsSome(model)
    /\ nparams' = Some(CodeGenerationModel_num_parameters(model[1]))
    /\ UNCHANGED <<ctor, model, fwd, cfg, trained>>
    /\ UNCHANGED tokenizer_vars
    /\ UNCHANGED pure_vars

\* forward on every model that differs in what forward reads
Next == New(ForwardConfigs) \/ Forward \/ NumParameters

Spec == Init /\ [][Next]_vars

\* construction and parameter counting over every shape of model
ParamNext == New(ParamConfigs) \/ NumParameters

ParamSpec == Init /\ [][ParamNext]_vars

----------------------------------------------------------------------------
(* Claims about the model facade.                                          *)

IsTransformer == IsSome(model) /\ model[1].architecture = "Transformer"

IsLSTM == IsSome(model) /\ model[1].architecture = "LSTM"

\* C1: a model whose d_model is not evenly divisible by nhead is never
\* returned by new, whatever the architecture: whenever new returned a model
\* with a non-zero head count, the head count divides the width.
C1_IndivisibleWidthNeverConstructed ==
    (ctor.outcome = "returned" /\ ctor.nhead > 0) => ctor.d_model % ctor.nhead = 0

\* C2: forward on a constructed model and a non-empty input returns, and
\* returns exactly vocab_size logits.
C2_ForwardReturnsVocabSizeLogits ==
    (IsSome(model) /\ fwd.outcome # "none" /\ Len(fwd.input) > 0) =>
        /\ fwd.outcome = "returned"
        /\ fwd.output_len = Some(model[1].vocab_size)

\* C3: an input holding ids >= vocab_size is not rejected (forward returns),
\* every id used to index the embedding table is below vocab_size, and the
\* encoder ids are the input's with the out-of-range ones replaced by 1 and
\* the others unchanged.
C3_OutOfRangeIdsCoerced ==
    (IsTransformer /\ fwd.outcome # "none"
        /\ model[1].max_seq_len >= Len(fwd.input) + 1
        /\ \E k \in 1..Len(fwd.input) : fwd.input[k] >= model[1].vocab_size) =>
        /\ fwd.outcome = "returned"
        /\ \A k \in 1..Len(fwd.token_rows) : fwd.token_rows[k] < model[1].vocab_size
        /\ Len(fwd.encoder_ids) = Len(fwd.input)
        /\ \A k \in 1..Len(fwd.input) :
              fwd.encoder_ids[k] =
                 IF fwd.input[k] < model[1].vocab_size THEN fwd.input[k] ELSE 1

\* the remapping of one id, as the specification words it
Remapped(id, vocab_size) == IF id >= vocab_size THEN 1 ELSE id

\* C4 as claimed: the decoder ids are the start-of-sequence id followed by
\* exactly the sanitized encoder ids, for every input length (stated for the
\* models whose vocabulary holds the start-of-sequence id, and the calls that
\* returned).
C4_DecoderIsSosThenEncoderIds ==
    (IsTransformer /\ fwd.outcome = "returned" /\ model[1].vocab_size > 2) =>
        fwd.decoder_ids = <<2>> \o fwd.encoder_ids

\* C4 amended: the encoder ids are the first max_seq_len input ids, remapped;
\* the decoder ids are the start-of-sequence id (remapped like any id)
\* followed by the remapped input ids, cut as a whole to max_seq_len: the
\* start-of-sequence id followed by all the encoder ids when the input is
\* shorter than max_seq_len, and max_seq_len ids that omit the last encoder
\* id when it is not.
C4_DecoderIsSanitizedSosThenInput ==
    (IsTransformer /\ fwd.outcome # "none") =>
        LET msl == model[1].max_seq_len
            V   == model[1].vocab_size
            n   == Len(fwd.input)
            enc == fwd.encoder_ids
            dec == fwd.decoder_ids
        IN  /\ Len(enc) = Min(n, msl)
            /\ \A k \in 1..Len(enc) : enc[k] = Remapped(fwd.input[k], V)
            /\ Len(dec) = Min(n + 1, msl)
            /\ Len(dec) >= 1 => dec[1] = Remapped(2, V)
            /\ \A k \in 2..Len(dec) : dec[k] = enc[k - 1]
            /\ n < msl => dec = <<Remapped(2, V)>> \o enc
            /\ (n >= msl /\ msl >= 1) => Len(dec) = Len(enc)

\* C4 witness: a returned forward call on an input as long as max_seq_len,
\* with an out-of-range id, whose decoder ids omit the last encoder id
C4_Witness ==
    /\ IsTransformer
    /\ fwd.outcome = "returned"
    /\ model[1].vocab_size > 2
    /\ Len(fwd.input) >= model[1].max_seq_len
    /\ Len(fwd.input) >= 2
    /\ \E k \in 1..Len(fwd.encoder_ids) : fwd.input[k] >= model[1].vocab_size
    /\ fwd.decoder_ids # <<2>> \o fwd.encoder_ids

\* the closed-form parameter count of the specification
ClosedFormParameters(V, D, L, H) ==
    LET A == 4 * D * D + 4 * D
        F == D * H + H + H * D + D
        N == 2 * D
    IN  V * D + D * V + V + L * (A + F + 2 * N) + L * (2 * A + F + 3 * N)

\* C10: a num_parameters call on a transformer returns the closed-form count
\* (the positional-encoding table not counted) and changes nothing else.
C10_NumParametersClosedForm ==
    [][(nparams' # nparams /\ IsTransformer) =>
          /\ model' = model /\ fwd' = fwd /\ ctor' = ctor
          /\ UNCHANGED tokenizer_vars
          /\ nparams' = Some(ClosedFormParameters(model[1].vocab_size,
                 model[1].d_model, model[1].num_layers, model[1].dim_feedforward))]_vars

\* C10 witness: the count of a transformer with layers, a vocabulary, a
\* feed-forward width other than its model width, and two heads
C10_Witness ==
    /\ IsTransformer
    /\ IsSome(nparams)
    /\ nparams[1] > 0
    /\ model[1].num_layers >= 1
    /\ model[1].vocab_size >= 2
    /\ model[1].d_model >= 2
    /\ model[1].nhead >= 2
    /\ model[1].dim_feedforward # model[1].d_model

----------------------------------------------------------------------------
(* src/src/tokenizer/mod.rs: the lexer.                                    *)
(*                                                                         *)
(* A character is a one-character string, a text and a token are           *)
(* sequences of characters. Each pattern of WGSLPatterns is an operator    *)
(* that gives the length of the match Regex::find returns when that match  *)
(* starts at offset 0 of the remaining text, and 0 when find returns no    *)
(* match or one that starts later (tokenize ignores those). The regex      *)
(* crate's leftmost-first rule is followed: alternatives in their written  *)
(* order, repetitions greedy.                                              *)

LowerLetters == <<"a", "b", "c", "d", "e", "f", "g", "h", "i", "j", "k", "l", "m", "n", "o", "p", "q", "r", "s", "t", "u", "v", "w", "x", "y", "z">>

UpperLetters == <<"A", "B", "C", "D", "E", "F", "G", "H", "I", "J", "K", "L", "M", "N", "O", "P", "Q", "R", "S", "T", "U", "V", "W", "X", "Y", "Z">>

Range(s) == {s[k] : k \in 1..Len(s)}

Letters == Range(LowerLetters) \cup Range(UpperLetters)
Digits == {"0", "1", "2", "3", "4", "5", "6", "7", "8", "9"}
HexDigits == Digits \cup {"a", "b", "c", "d", "e", "f", "A", "B", "C", "D", "E", "F"}
\* [+\-*/%&|^<>=!~]
OperatorChars == {"+", "-", "*", "/", "%", "&", "|", "^", "<", ">", "=", "!", "~"}
\* [(){}\[\];:,.]
PunctuationChars == {"(", ")", "{", "}", "[", "]", ";", ":", ",", "."}
\* char::is_whitespace, on the characters of the texts explored
WhitespaceChars == {" ", "\t", "\n", "\r"}
\* \w, on the characters of the texts explored
IsWordChar(ch) == ch \in Letters \cup Digits \cup {"_"}

\* char::to_lowercase on one character
to_lowercase_char(ch) ==
    IF ch \in Range(UpperLetters)
    THEN LowerLetters[CHOOSE k \in 1..Len(UpperLetters) : UpperLetters[k] = ch]
    ELSE ch

\* str::to_lowercase
to_lowercase(text) == [k \in 1..Len(text) |-> to_lowercase_char(text[k])]

\* the alternatives of the keyword pattern, in order
KeywordAlternatives ==
    << <<"f", "n">>, <<"v", "a", "r">>, <<"l", "e", "t">>,
       <<"c", "o", "n", "s", "t">>, <<"s", "t", "r", "u", "c", "t">>,
       <<"t", "y", "p", "e">>, <<"i", "f">>, <<"e", "l", "s", "e">>,
       <<"f", "o", "r">>, <<"w", "h", "i", "l", "e">>,
       <<"l", "o", "o", "p">>, <<"b", "r", "e", "a", "k">>,
       <<"c", "o", "n", "t", "i", "n", "u", "e">>,
       <<"r", "e", "t", "u", "r", "n">>, <<"s", "w", "i", "t", "c", "h">>,
       <<"c", "a", "s", "e">>, <<"d", "e", "f", "a", "u", "l", "t">>,
       <<"d", "i", "s", "c", "a", "r", "d">>,
       <<"@", "c", "o", "m", "p", "u", "t", "e">>,
       <<"@", "f", "r", "a", "g", "m", "e", "n", "t">>,
       <<"@", "v", "e", "r", "t", "e", "x">>,
       <<"@", "g", "r", "o", "u", "p">>,
       <<"@", "b", "i", "n", "d", "i", "n", "g">>,
       <<"@", "l", "o", "c", "a", "t", "i", "o", "n">>,
       <<"@", "b", "u", "i", "l", "t", "i", "n">>,
       <<"@", "w", "o", "r", "k", "g", "r", "o", "u", "p", "_", "s", "i", "z", "e">>,
       <<"@", "s", "t", "a", "g", "e">>, <<"@", "s", "i", "z", "e">>,
       <<"@", "a", "l", "i", "g", "n">>,
       <<"@", "i", "n", "t", "e", "r", "p", "o", "l", "a", "t", "e">> >>

\* the alternatives of the attribute pattern (after the @), in order
AttributeAlternatives ==
    << <<"c", "o", "m", "p", "u", "t", "e">>,
       <<"f", "r", "a", "g", "m", "e", "n", "t">>,
       <<"v", "e", "r", "t", "e", "x">>, <<"g", "r", "o", "u", "p">>,
       <<"b", "i", "n", "d", "i", "n", "g">>,
       <<"l", "o", "c", "a", "t", "i", "o", "n">>,
       <<"b", "u", "i", "l", "t", "i", "n">>,
       <<"w", "o", "r", "k", "g", "r", "o", "u", "p", "_", "s", "i", "z", "e">>,
       <<"s", "t", "a", "g", "e">>, <<"s", "i", "z", "e">>,
       <<"a", "l", "i", "g", "n">>,
       <<"i", "n", "t", "e", "r", "p", "o", "l", "a", "t", "e">> >>

\* the alternatives of the type_spec pattern (before the <), in order, the
\* character classes [234] and [123] expanded
TypeAlternatives ==
    << <<"v", "e", "c", "2">>, <<"v", "e", "c", "3">>,
       <<"v", "e", "c", "4">>, <<"m", "a", "t", "2", "x", "2">>,
       <<"m", "a", "t", "2", "x", "3">>, <<"m", "a", "t", "2", "x", "4">>,
       <<"m", "a", "t", "3", "x", "2">>, <<"m", "a", "t", "3", "x", "3">>,
       <<"m", "a", "t", "3", "x", "4">>, <<"m", "a", "t", "4", "x", "2">>,
       <<"m", "a", "t", "4", "x", "3">>, <<"m", "a", "t", "4", "x", "4">>,
       <<"a", "r", "r", "a", "y">>,
       <<"t", "e", "x", "t", "u", "r", "e", "_", "1", "d">>,
       <<"t", "e", "x", "t", "u", "r", "e", "_", "2", "d">>,
       <<"t", "e", "x", "t", "u", "r", "e", "_", "3", "d">>,
       <<"t", "e", "x", "t", "u", "r", "e", "_", "c", "u", "b", "e">>,
       <<"t", "e", "x", "t", "u", "r", "e", "_", "2", "d", "_", "a", "r", "r", "a", "y">>,
       <<"t", "e", "x", "t", "u", "r", "e", "_", "s", "t", "o", "r", "a", "g", "e", "_", "1", "d">>,
       <<"t", "e", "x", "t", "u", "r", "e", "_", "s", "t", "o", "r", "a", "g", "e", "_", "2", "d">>,
       <<"t", "e", "x", "t", "u", "r", "e", "_", "s", "t", "o", "r", "a", "g", "e", "_", "3", "d">>,
       <<"s", "a", "m", "p", "l", "e", "r">>,
       <<"s", "a", "m", "p", "l", "e", "r", "_", "c", "o", "m", "p", "a", "r", "i", "s", "o", "n">>,
       <<"a", "t", "o", "m", "i", "c">>, <<"p", "t", "r">> >>

StartsWith(text, lit) ==
    /\ Len(text) >= Len(lit)
    /\ \A k \in 1..Len(lit) : text[k] = lit[k]

\* \b between text[p] and text[p + 1] (p = 0: the start of the haystack)
WordBoundary(text, p) ==
    LET before == p >= 1 /\ p <= Len(text) /\ IsWordChar(text[p])
        after  == p + 1 <= Len(text) /\ IsWordChar(text[p + 1])
    IN  before # after

\* the length of the longest prefix of text from index p on whose characters
\* are all in S
RECURSIVE RunLength(_, _, _)
RunLength(text, p, S) ==
    IF p <= Len(text) /\ text[p] \in S THEN 1 + RunLength(text, p + 1, S) ELSE 0

\* the first index k >= p with text[k] = ch, or 0
RECURSIVE IndexOf(_, _, _)
IndexOf(text, p, ch) ==
    IF p > Len(text) THEN 0
    ELSE IF text[p] = ch THEN p
    ELSE IndexOf(text, p + 1, ch)

\* the length of the first alternative, in order, among those that match
\* (hits: their indices), or 0
FirstAlternative(alts, hits) ==
    IF hits = {} THEN 0
    ELSE Len(alts[CHOOSE k \in hits : \A j \in hits : k <= j])

\* \b(name)<[^>]+> : a type name, a <, one or more characters other than >
\* (whitespace and newlines included), and the first >
type_spec_match(text) ==
    LET Matches(name) ==
            /\ StartsWith(text, name \o <<"<">>)
            /\ WordBoundary(text, 0)
            /\ IndexOf(text, Len(name) + 2, ">") > Len(name) + 2
        n == FirstAlternative(TypeAlternatives,
                {k \in 1..Len(TypeAlternatives) : Matches(TypeAlternatives[k])})
    IN  IF n = 0 THEN 0 ELSE IndexOf(text, n + 2, ">")

\* @(name)
attribute_match(text) ==
    LET Matches(name) == StartsWith(text, <<"@">> \o name)
        n == FirstAlternative(AttributeAlternatives,
                {k \in 1..Len(AttributeAlternatives) : Matches(AttributeAlternatives[k])})
    IN  IF n = 0 THEN 0 ELSE n + 1

\* \b(word)\b
keyword_match(text) ==
    LET Matches(word) ==
            /\ StartsWith(text, word)
            /\ WordBoundary(text, 0)
            /\ WordBoundary(text, Len(word))
    IN  FirstAlternative(KeywordAlternatives,
                {k \in 1..Len(KeywordAlternatives) : Matches(KeywordAlternatives[k])})

\* 1 when text[p] exists and is in S, else 0: the length of S? at index p
OptionalAt(text, p, S) == IF p <= Len(text) /\ text[p] \in S THEN 1 ELSE 0

\* [0-9]+ at index p after the `lead` characters of [eE][+-]? : the length
\* of the exponent, 0 when it has no digit
exponent_digits(text, p, lead) ==
    IF RunLength(text, p, Digits) > 0 THEN lead + RunLength(text, p, Digits) ELSE 0

\* ([eE][+-]?[0-9]+)? after the first m characters
exponent_match(text, m) ==
    IF OptionalAt(text, m + 1, {"e", "E"}) = 1
    THEN exponent_digits(text, m + 2 + OptionalAt(text, m + 2, {"+", "-"}),
                         1 + OptionalAt(text, m + 2, {"+", "-"}))
    ELSE 0

\* [fu]? after the first m characters
with_suffix(text, m) == m + OptionalAt(text, m + 1, {"f", "u"})

with_exponent(text, m) == with_suffix(text, m + exponent_match(text, m))

\* [0-9]* from index q on
with_fraction(text, q) == with_exponent(text, q - 1 + RunLength(text, q, Digits))

\* [0-9]+\.?[0-9]*([eE][+-]?[0-9]+)?[fu]? where int is the length of [0-9]+
decimal_match(text, int) ==
    IF int = 0 THEN 0
    ELSE with_fraction(text, int + OptionalAt(text, int + 1, {"."}) + 1)

\* 0x[0-9a-fA-F]+ | [0-9]+\.?[0-9]*([eE][+-]?[0-9]+)?[fu]?
number_match(text) ==
    IF StartsWith(text, <<"0", "x">>) /\ RunLength(text, 3, HexDigits) > 0
    THEN 2 + RunLength(text, 3, HexDigits)
    ELSE decimal_match(text, RunLength(text, 1, Digits))

\* [+\-*/%&|^<>=!~]+|<<|>>|&&|\|\||==|!=|<=|>=|-> : the first alternative
\* matches wherever a later one does, so the match is the run of operator
\* characters
operator_match(text) == RunLength(text, 1, OperatorChars)

\* [(){}\[\];:,.]
punctuation_match(text) ==
    IF Len(text) >= 1 /\ text[1] \in PunctuationChars THEN 1 ELSE 0

\* [a-zA-Z_][a-zA-Z0-9_]*
identifier_match(text) ==
    IF Len(text) >= 1 /\ text[1] \in Letters \cup {"_"}
    THEN RunLength(text, 1, Letters \cup Digits \cup {"_"})
    ELSE 0

\* the length of the token tokenize emits at the start of remaining: the
\* match of the first pattern, in priority order, that matches at offset 0
first_match(remaining) ==
    LET t == type_spec_match(remaining)
        a == attribute_match(remaining)
        k == keyword_match(remaining)
        n == number_match(remaining)
        o == operator_match(remaining)
        p == punctuation_match(remaining)
        i == identifier_match(remaining)
    IN  IF t > 0 THEN t
        ELSE IF a > 0 THEN a
        ELSE IF k > 0 THEN k
        ELSE IF n > 0 THEN n
        ELSE IF o > 0 THEN o
        ELSE IF p > 0 THEN p
        ELSE i

\* the while loop of tokenize from offset pos (counted from 1)
RECURSIVE tokenize_from(_, _)
tokenize_from(text, pos) ==
    IF pos > Len(text) THEN <<>>
    ELSE IF text[pos] \in WhitespaceChars THEN tokenize_from(text, pos + 1)
    ELSE LET remaining == SubSeq(text, pos, Len(text))
             n == first_match(remaining)
         IN  IF n > 0
             THEN <<SubSeq(remaining, 1, n)>> \o tokenize_from(text, pos + n)
             ELSE tokenize_from(text, pos + 1)

tokenize(lowercase, text) ==
    tokenize_from(IF lowercase THEN to_lowercase(text) ELSE text, 1)

----------------------------------------------------------------------------
(* src/src/tokenizer/mod.rs: WGSLTokenizer. vocab and reverse_vocab are    *)
(* functions (HashMap), a tokenizer is the record of its serialized fields *)
(* (the patterns are fixed).                                               *)

as_str(special) ==
    CASE special = "Padding" -> <<"<", "p", "a", "d", ">">>
      [] special = "Unknown" -> <<"<", "u", "n", "k", ">">>
      [] special = "StartOfSequence" -> <<"<", "s", "o", "s", ">">>
      [] special = "EndOfSequence" -> <<"<", "e", "o", "s", ">">>

EmptyMap == [x \in {} |-> 0]

\* HashMap::insert: the entry of key k is set, replacing one it had
map_insert(m, k, v) == [x \in DOMAIN m \cup {k} |-> IF x = k THEN v ELSE m[x]]

RECURSIVE insert_specials(_, _)
insert_specials(t, k) ==
    IF k = 0 THEN t
    ELSE LET prev == insert_specials(t, k - 1)
             special == SpecialTokens[k]
         IN  [prev EXCEPT
                !.vocab = map_insert(prev.vocab, as_str(special), token_id(special)),
                !.reverse_vocab = map_insert(prev.reverse_vocab, token_id(special),
                                             as_str(special))]

\* a constructor that starts the free ids at the first reserved id
WGSLTokenizer_new_next_id_0(max_length, lowercase) ==
    insert_specials([vocab |-> EmptyMap, reverse_vocab |-> EmptyMap, next_id |-> 0,
                     max_length |-> max_length, lowercase |-> lowercase],
                    Len(SpecialTokens))

WGSLTokenizer_new(max_length, lowercase) ==
    insert_specials([vocab |-> EmptyMap, reverse_vocab |-> EmptyMap, next_id |-> 4,
                     max_length |-> max_length, lowercase |-> lowercase],
                    Len(SpecialTokens))

WGSLTokenizer_tokenize(t, text) == tokenize(t.lowercase, text)

\* the tokens of every text of the corpus, in order
RECURSIVE corpus_tokens(_, _)
corpus_tokens(t, texts) ==
    IF texts = <<>> THEN <<>>
    ELSE WGSLTokenizer_tokenize(t, texts[1]) \o corpus_tokens(t, Tail(texts))

\* freq_map of fit: each token of the corpus with its number of occurrences
freq_map(t, texts) ==
    LET all == corpus_tokens(t, texts)
    IN  [token \in Range(all) |-> Cardinality({k \in 1..Len(all) : all[k] = token})]

\* a second loop of fit that lacks the contains_key test: a token the
\* vocabulary already holds is given a fresh id
RECURSIVE fit_insert_no_check(_, _, _, _)
fit_insert_no_check(t, freq, order, min_freq) ==
    IF order = <<>> THEN t
    ELSE LET token == order[1]
             next == IF freq[token] >= min_freq
                     THEN [t EXCEPT
                             !.vocab = map_insert(t.vocab, token, t.next_id),
                             !.reverse_vocab = map_insert(t.reverse_vocab, t.next_id, token),
                             !.next_id = t.next_id + 1]
                     ELSE t
         IN  fit_insert_no_check(next, freq, Tail(order), min_freq)

\* the second loop of fit over the entries of freq_map in the order `order`
\* (a sequence of tokens)
RECURSIVE fit_insert(_, _, _, _)
fit_insert(t, freq, order, min_freq) ==
    IF order = <<>> THEN t
    ELSE LET token == order[1]
             next == IF freq[token] >= min_freq /\ token \notin DOMAIN t.vocab
                     THEN [t EXCEPT
                             !.vocab = map_insert(t.vocab, token, t.next_id),
                             !.reverse_vocab = map_insert(t.reverse_vocab, t.next_id, token),
                             !.next_id = t.next_id + 1]
                     ELSE t
         IN  fit_insert(next, freq, Tail(order), min_freq)

\* the orders in which a HashMap with these keys may be iterated
IterationOrders(keys) ==
    {o \in [1..Cardinality(keys) -> keys] :
        \A i, j \in 1..Cardinality(keys) : o[i] = o[j] => i = j}

\* a fit without the frequency floor: every token of the corpus is a
\* candidate, whatever min_freq says
WGSLTokenizer_fit_no_floor(t, texts, min_freq) ==
    LET freq == freq_map(t, texts)
    IN  {fit_insert(t, freq, order, 0) : order \in IterationOrders(DOMAIN freq)}

\* the tokenizers fit may leave: one for each iteration order of freq_map
WGSLTokenizer_fit(t, texts, min_freq) ==
    LET freq == freq_map(t, texts)
    IN  {fit_insert(t, freq, order, min_freq) : order \in IterationOrders(DOMAIN freq)}

\* an encode that fails to substitute: it gives the padding id to a token
\* the vocabulary lacks
WGSLTokenizer_encode_pad(t, tokens) ==
    [k \in 1..Len(tokens) |->
        IF tokens[k] \in DOMAIN t.vocab THEN t.vocab[tokens[k]] ELSE token_id("Padding")]

WGSLTokenizer_encode(t, tokens) ==
    [k \in 1..Len(tokens) |->
        IF tokens[k] \in DOMAIN t.vocab THEN t.vocab[tokens[k]] ELSE token_id("Unknown")]

\* an encode_text that cuts its ids at max_length
WGSLTokenizer_encode_text_truncating(t, text) ==
    take(WGSLTokenizer_encode(t, WGSLTokenizer_tokenize(t, text)), t.max_length)

WGSLTokenizer_encode_text(t, text) ==
    WGSLTokenizer_encode(t, WGSLTokenizer_tokenize(t, text))

\* a decode that keeps an unmapped id, as the unknown token, where
\* filter_map drops it
RECURSIVE WGSLTokenizer_decode_keep(_, _)
WGSLTokenizer_decode_keep(t, ids) ==
    IF ids = <<>> THEN <<>>
    ELSE (IF ids[1] \in DOMAIN t.reverse_vocab THEN <<t.reverse_vocab[ids[1]]>>
          ELSE <<as_str("Unknown")>>)
            \o WGSLTokenizer_decode_keep(t, Tail(ids))

RECURSIVE WGSLTokenizer_decode(_, _)
WGSLTokenizer_decode(t, ids) ==
    IF ids = <<>> THEN <<>>
    ELSE (IF ids[1] \in DOMAIN t.reverse_vocab THEN <<t.reverse_vocab[ids[1]]>> ELSE <<>>)
            \o WGSLTokenizer_decode(t, Tail(ids))

\* [String]::join(" ")
RECURSIVE join(_, _)
join(tokens, sep) ==
    IF tokens = <<>> THEN <<>>
    ELSE IF Len(tokens) = 1 THEN tokens[1]
    ELSE tokens[1] \o sep \o join(Tail(tokens), sep)

WGSLTokenizer_decode_to_text(t, ids) == join(WGSLTokenizer_decode(t, ids), <<" ">>)

WGSLTokenizer_vocab_size(t) == Cardinality(DOMAIN t.vocab)

(* serde_json: a usize key of a map is written as its decimal digits and   *)
(* parsed back from them; a map is written as its set of entries.          *)

DigitChars == <<"0", "1", "2", "3", "4", "5", "6", "7", "8", "9">>

RECURSIVE usize_to_key(_)
usize_to_key(n) ==
    IF n < 10 THEN <<DigitChars[n + 1]>>
    ELSE usize_to_key(n \div 10) \o <<DigitChars[(n % 10) + 1]>>

RECURSIVE key_to_usize(_)
key_to_usize(key) ==
    IF key = <<>> THEN 0
    ELSE 10 * key_to_usize(SubSeq(key, 1, Len(key) - 1))
            + ((CHOOSE d \in 1..10 : DigitChars[d] = key[Len(key)]) - 1)

\* a serialization that leaves out next_id, as the list of persisted fields
\* of the interface description does; load then starts it at 0
serialize_without_next_id(t) ==
    [vocab |-> {<<token, t.vocab[token]>> : token \in DOMAIN t.vocab},
     reverse_vocab |-> {<<usize_to_key(id), t.reverse_vocab[id]>> :
                            id \in DOMAIN t.reverse_vocab},
     next_id |-> 0,
     max_length |-> t.max_length,
     lowercase |-> t.lowercase]

\* serde_json::to_string_pretty(self): every field but patterns
serialize(t) ==
    [vocab |-> {<<token, t.vocab[token]>> : token \in DOMAIN t.vocab},
     reverse_vocab |-> {<<usize_to_key(id), t.reverse_vocab[id]>> :
                            id \in DOMAIN t.reverse_vocab},
     next_id |-> t.next_id,
     max_length |-> t.max_length,
     lowercase |-> t.lowercase]

\* serde_json::from_str, then patterns = WGSLPatterns::default()
deserialize(json) ==
    [vocab |-> [token \in {e[1] : e \in json.vocab} |->
                    (CHOOSE e \in json.vocab : e[1] = token)[2]],
     reverse_vocab |-> [id \in {key_to_usize(e[1]) : e \in json.reverse_vocab} |->
                    (CHOOSE e \in json.reverse_vocab : key_to_usize(e[1]) = id)[2]],
     next_id |-> json.next_id,
     max_length |-> json.max_length,
     lowercase |-> json.lowercase]

----------------------------------------------------------------------------
(* The tokenizer as a state machine: a tokenizer made by new, then fit,    *)
(* tokenize, encode, encode_text, decode, decode_to_text and save calls on *)
(* it, load calls, and the same calls on the tokenizer load returned. One  *)
(* call runs at a time: `last` holds the call that returned until its      *)
(* caller has taken the result.                                            *)

\* a corpus has at most MaxCorpus texts
MaxCorpus == 2
\* min_freq ranges over 0..MaxMinFreq
MaxMinFreq == 2
\* encode and decode are given at most MaxTokens tokens or ids
MaxTokens == 2
\* decode is given ids up to MaxId
MaxId == 5
\* at most MaxFits fit calls are made
MaxFits == 2

\* the texts fitted and tokenized: "Fn x", "x 1"
SampleTexts ==
    { <<"F", "n", " ", "x">>,
      <<"x", " ", "1">> }

\* the tokens encode is given: the tokens of the texts, a reserved string and
\* a token that is in no text
ProbeTokens ==
    { <<"f", "n">>, <<"x">>, <<"<", "p", "a", "d", ">">>, <<"z", "z">> }

\* the max_length of the tokenizers: below the number of tokens of a text,
\* and the default
MaxLengths == {1, 512}

Corpora == SeqsUpTo(SampleTexts, MaxCorpus)
TokenSeqs == SeqsUpTo(ProbeTokens, MaxTokens)
\* the ids decode is given: the unknown id, the first id fit assigns, and an
\* id past it
DecodeIds == {token_id("Unknown"), 4, MaxId}
IdSeqs == SeqsUpTo(DecodeIds, MaxTokens)
Objects == {"tok", "loaded"}

Object(obj) == IF obj = "tok" THEN tok ELSE loaded

Call(op, obj, arg, result) == Some([op |-> op, obj |-> obj, arg |-> arg, result |-> result])

TokInit ==
    /\ FacadeIdle
    /\ PureIdle
    /\ \E max_length \in MaxLengths, lowercase \in BOOLEAN :
          tok = Some(WGSLTokenizer_new(max_length, lowercase))
    /\ file = None
    /\ loaded = None
    /\ last = None
    /\ seen = {}
    /\ saved = None
    /\ fits = 0

Fit(obj) ==
    /\ last = None
    /\ fits < MaxFits
    /\ IsSome(Object(obj))
    /\ \E texts \in Corpora, min_freq \in 0..MaxMinFreq :
        \E after \in WGSLTokenizer_fit(Object(obj)[1], texts, min_freq) :
            /\ IF obj = "tok"
               THEN /\ tok' = Some(after)
                    /\ seen' = seen \cup DOMAIN freq_map(tok[1], texts)
                    /\ loaded' = loaded
               ELSE /\ loaded' = Some(after)
                    /\ UNCHANGED <<tok, seen>>
            /\ last' = Call("fit", obj, [texts |-> texts, min_freq |-> min_freq],
                            freq_map(Object(obj)[1], texts))
    /\ fits' = fits + 1
    /\ UNCHANGED <<file, saved>>
    /\ UNCHANGED facade_vars
    /\ UNCHANGED pure_vars

Tokenize(obj) ==
    /\ last = None
    /\ IsSome(Object(obj))
    /\ \E text \in SampleTexts :
        last' = Call("tokenize", obj, text, WGSLTokenizer_tokenize(Object(obj)[1], text))
    /\ UNCHANGED <<tok, file, loaded, seen, saved, fits>>
    /\ UNCHANGED facade_vars
    /\ UNCHANGED pure_vars

Encode(obj) ==
    /\ last = None
    /\ IsSome(Object(obj))
    /\ \E tokens \in TokenSeqs :
        last' = Call("encode", obj, tokens, WGSLTokenizer_encode(Object(obj)[1], tokens))
    /\ UNCHANGED <<tok, file, loaded, seen, saved, fits>>
    /\ UNCHANGED facade_vars
    /\ UNCHANGED pure_vars

EncodeText(obj) ==
    /\ last = None
    /\ IsSome(Object(obj))
    /\ \E text \in SampleTexts :
        last' = Call("encode_text", obj, text,
                     WGSLTokenizer_encode_text(Object(obj)[1], text))
    /\ UNCHANGED <<tok, file, loaded, seen, saved, fits>>
    /\ UNCHANGED facade_vars
    /\ UNCHANGED pure_vars

Decode(obj) ==
    /\ last = None
    /\ IsSome(Object(obj))
    /\ \E ids \in IdSeqs :
        last' = Call("decode", obj, ids, WGSLTokenizer_decode(Object(obj)[1], ids))
    /\ UNCHANGED <<tok, file, loaded, seen, saved, fits>>
    /\ UNCHANGED facade_vars
    /\ UNCHANGED pure_vars

DecodeToText(obj) ==
    /\ last = None
    /\ IsSome(Object(obj))
    /\ \E ids \in IdSeqs :
        last' = Call("decode_to_text", obj, ids,
                     WGSLTokenizer_decode_to_text(Object(obj)[1], ids))
    /\ UNCHANGED <<tok, file, loaded, seen, saved, fits>>
    /\ UNCHANGED facade_vars
    /\ UNCHANGED pure_vars

\* save writes the document at the path (one path is modelled)
Save(obj) ==
    /\ last = None
    /\ IsSome(Object(obj))
    /\ file' = Some(serialize(Object(obj)[1]))
    /\ saved' = Object(obj)
    /\ last' = Call("save", obj, <<>>, "Ok")
    /\ UNCHANGED <<tok, loaded, seen, fits>>
    /\ UNCHANGED facade_vars
    /\ UNCHANGED pure_vars

\* load reads the path: Err when nothing was saved there
Load ==
    /\ last = None
    /\ IF IsSome(file)
       THEN /\ loaded' = Some(deserialize(file[1]))
            /\ last' = Call("load", "loaded", <<>>, "Ok")
       ELSE /\ loaded' = loaded
            /\ last' = Call("load", "loaded", <<>>, "Err")
    /\ UNCHANGED <<tok, file, seen, saved, fits>>
    /\ UNCHANGED facade_vars
    /\ UNCHANGED pure_vars

\* the caller takes the result of the call
Return ==
    /\ last # None
    /\ last' = None
    /\ UNCHANGED <<tok, file, loaded, seen, saved, fits>>
    /\ UNCHANGED facade_vars
    /\ UNCHANGED pure_vars

TokNext ==
    \/ \E obj \in Objects : Fit(obj)
    \/ \E obj \in Objects : Tokenize(obj)
    \/ \E obj \in Objects : Encode(obj)
    \/ \E obj \in Objects : EncodeText(obj)
    \/ \E obj \in Objects : Decode(obj)
    \/ \E obj \in Objects : DecodeToText(obj)
    \/ \E obj \in Objects : Save(obj)
    \/ Load
    \/ Return

TokSpec == TokInit /\ [][TokNext]_vars

----------------------------------------------------------------------------
(* Properties of the tokenizer.                                            *)

ReservedStrings == {as_str(SpecialTokens[k]) : k \in 1..Len(SpecialTokens)}

IsCall(op, obj) == IsSome(last) /\ last[1].op = op /\ last[1].obj = obj

\* vocab and reverse_vocab are inverse bijections over the ids
\* 0..vocab_size()-1, next_id is vocab_size(), the reserved strings hold
\* their ids
VocabularyInvariant(t) ==
    /\ DOMAIN t.reverse_vocab = {t.vocab[token] : token \in DOMAIN t.vocab}
    /\ \A token \in DOMAIN t.vocab : t.reverse_vocab[t.vocab[token]] = token
    /\ \A id \in DOMAIN t.reverse_vocab :
          /\ t.reverse_vocab[id] \in DOMAIN t.vocab
          /\ t.vocab[t.reverse_vocab[id]] = id
    /\ DOMAIN t.reverse_vocab = 0..(WGSLTokenizer_vocab_size(t) - 1)
    /\ t.next_id = WGSLTokenizer_vocab_size(t)
    /\ \A k \in 1..Len(SpecialTokens) :
          /\ as_str(SpecialTokens[k]) \in DOMAIN t.vocab
          /\ t.vocab[as_str(SpecialTokens[k])] = token_id(SpecialTokens[k])
    /\ t.vocab[<<"<", "p", "a", "d", ">">>] = 0
    /\ t.vocab[<<"<", "u", "n", "k", ">">>] = 1
    /\ t.vocab[<<"<", "s", "o", "s", ">">>] = 2
    /\ t.vocab[<<"<", "e", "o", "s", ">">>] = 3

(* C5: after new and any sequence of fit calls, vocab and reverse_vocab of *)
(* the tokenizer are inverse bijections, the ids in use are exactly        *)
(* 0..vocab_size()-1, next_id equals vocab_size(), and <pad>, <unk>,       *)
(* <sos>, <eos> hold the ids 0, 1, 2, 3.                                   *)
C5_VocabularyBijection == IsSome(tok) => VocabularyInvariant(tok[1])

\* a second fit on the tokenizer has returned and the vocabulary holds at
\* least two fitted tokens
C5_Witness ==
    /\ IsCall("fit", "tok")
    /\ fits >= 2
    /\ tok[1].next_id >= 6

\* every entry of `before` is an entry of `after`
Grows(before, after) ==
    /\ \A token \in DOMAIN before.vocab :
          token \in DOMAIN after.vocab /\ after.vocab[token] = before.vocab[token]
    /\ \A id \in DOMAIN before.reverse_vocab :
          id \in DOMAIN after.reverse_vocab
              /\ after.reverse_vocab[id] = before.reverse_vocab[id]
    /\ WGSLTokenizer_vocab_size(after) >= WGSLTokenizer_vocab_size(before)

(* C6: the vocabulary only grows: no call removes an entry or changes the  *)
(* id of a token or the token of an id, vocab_size() never decreases, and  *)
(* the tokenizer changes in a fit call on it and in no other call          *)
(* (tokenize, encode, encode_text, decode, decode_to_text and save leave   *)
(* it as it was).                                                          *)
C6_VocabularyOnlyGrows ==
    [][ /\ IsSome(tok) =>
              /\ IsSome(tok')
              /\ Grows(tok[1], tok'[1])
              /\ (tok' # tok => IsSome(last') /\ last'[1].op = "fit" /\ last'[1].obj = "tok")
        /\ (IsSome(loaded) /\ ~(IsSome(last') /\ last'[1].op = "load")) =>
              /\ IsSome(loaded')
              /\ Grows(loaded[1], loaded'[1])
              /\ (loaded' # loaded =>
                      IsSome(last') /\ last'[1].op = "fit" /\ last'[1].obj = "loaded")
      ]_vars

\* a call other than fit has returned on a tokenizer that two fits have
\* grown
C6_Witness ==
    /\ IsSome(last)
    /\ last[1].obj = "tok"
    /\ last[1].op \in {"tokenize", "encode", "encode_text", "decode", "decode_to_text", "save"}
    /\ fits >= 2
    /\ WGSLTokenizer_vocab_size(tok[1]) >= 6

\* the tokens of the corpus of the fit that has returned that met min_freq
FrequentTokens ==
    {token \in DOMAIN last[1].result : last[1].result[token] >= last[1].arg.min_freq}

(* C7 as stated: after fit(corpus, min_freq) every token of the corpus     *)
(* whose frequency is at least min_freq encodes to an id other than 1, and *)
(* every token string that was in no fitted corpus encodes to exactly 1.   *)
C7_UnseenTokenIsUnknown ==
    IsSome(tok) =>
        /\ IsCall("fit", "tok") =>
              \A token \in FrequentTokens : WGSLTokenizer_encode(tok[1], <<token>>) # <<1>>
        /\ fits >= 1 =>
              \A token \in ProbeTokens \ seen : WGSLTokenizer_encode(tok[1], <<token>>) = <<1>>

(* C7: after fit(corpus, min_freq) every token of the corpus whose         *)
(* frequency is at least min_freq encodes to an id other than 1; every     *)
(* token string that was in no fitted corpus and is not a reserved string  *)
(* encodes to exactly 1; the reserved strings <pad>, <unk>, <sos>, <eos>   *)
(* encode to 0, 1, 2, 3 although no corpus holds them.                     *)
C7_UnseenUnreservedTokenIsUnknown ==
    IsSome(tok) =>
        /\ IsCall("fit", "tok") =>
              \A token \in FrequentTokens : WGSLTokenizer_encode(tok[1], <<token>>) # <<1>>
        /\ fits >= 1 =>
              \A token \in ProbeTokens \ (seen \cup ReservedStrings) :
                  WGSLTokenizer_encode(tok[1], <<token>>) = <<1>>
        /\ \A k \in 1..Len(SpecialTokens) :
              /\ as_str(SpecialTokens[k]) \notin seen
              /\ WGSLTokenizer_encode(tok[1], <<as_str(SpecialTokens[k])>>)
                    = <<token_id(SpecialTokens[k])>>

\* a fit with min_freq 2 has returned whose corpus holds a token that met
\* min_freq and one that did not, and there are unseen probe tokens, one of
\* them reserved
C7_Witness ==
    /\ IsCall("fit", "tok")
    /\ last[1].arg.min_freq = 2
    /\ FrequentTokens # {}
    /\ FrequentTokens # DOMAIN last[1].result
    /\ \E token \in ProbeTokens \ seen : token \in ReservedStrings
    /\ \E token \in ProbeTokens \ seen : token \notin ReservedStrings

\* the tokens of the ids that reverse_vocab maps, in the order of the ids
MappedTokens(t, ids) ==
    LET IsMapped(id) == id \in DOMAIN t.reverse_vocab
        mapped == SelectSeq(ids, IsMapped)
    IN  [k \in 1..Len(mapped) |-> t.reverse_vocab[mapped[k]]]

(* C8: encode gives one id for each token, in order, the unknown id 1 for  *)
(* a token the vocabulary lacks; decode gives the tokens of the ids it     *)
(* maps, in order, and drops the other ids without error;                  *)
(* decode(encode(tokens)) is tokens exactly when every token is in the     *)
(* vocabulary, and a token the vocabulary lacks comes back as <unk>.       *)
C8_EncodeDecode ==
    IsSome(tok) =>
        /\ \A tokens \in TokenSeqs :
              LET ids == WGSLTokenizer_encode(tok[1], tokens)
                  back == WGSLTokenizer_decode(tok[1], ids)
              IN  /\ Len(ids) = Len(tokens)
                  /\ \A k \in 1..Len(tokens) :
                        ids[k] = IF tokens[k] \in DOMAIN tok[1].vocab
                                 THEN tok[1].vocab[tokens[k]] ELSE 1
                  /\ (back = tokens) <=> (\A k \in 1..Len(tokens) : tokens[k] \in DOMAIN tok[1].vocab)
                  /\ Len(back) = Len(tokens)
                  /\ \A k \in 1..Len(tokens) :
                        back[k] = IF tokens[k] \in DOMAIN tok[1].vocab
                                  THEN tokens[k] ELSE <<"<", "u", "n", "k", ">">>
        /\ \A ids \in IdSeqs :
              WGSLTokenizer_decode(tok[1], ids) = MappedTokens(tok[1], ids)
        /\ IsCall("encode", "tok") =>
              last[1].result = WGSLTokenizer_encode(tok[1], last[1].arg)
        /\ IsCall("decode", "tok") =>
              last[1].result = MappedTokens(tok[1], last[1].arg)

\* decode has returned for a fitted id and an id the vocabulary lacks: it
\* gave the one token of the fitted id
C8_Witness ==
    /\ IsCall("decode", "tok")
    /\ Len(last[1].arg) = 2
    /\ last[1].arg[1] \notin DOMAIN tok[1].reverse_vocab
    /\ last[1].arg[2] \in DOMAIN tok[1].reverse_vocab
    /\ last[1].arg[2] >= 4
    /\ Len(last[1].result) = 1
    /\ \E tokens \in TokenSeqs :
          WGSLTokenizer_decode(tok[1], WGSLTokenizer_encode(tok[1], tokens)) # tokens

(* C9: load after save gives a tokenizer with the vocabulary size, the two *)
(* mappings, max_length, lowercase and next_id of the tokenizer saved, so  *)
(* tokenize and encode give on it what they give on the tokenizer saved;   *)
(* the tokenizer loaded keeps the vocabulary invariant through later fit   *)
(* calls on it (a fit assigns no id that an entry already holds).          *)
C9_SaveLoadRoundTrip ==
    /\ (IsCall("load", "loaded") /\ last[1].result = "Ok") =>
          /\ IsSome(saved) /\ IsSome(loaded)
          /\ WGSLTokenizer_vocab_size(loaded[1]) = WGSLTokenizer_vocab_size(saved[1])
          /\ loaded[1].vocab = saved[1].vocab
          /\ loaded[1].reverse_vocab = saved[1].reverse_vocab
          /\ loaded[1].max_length = saved[1].max_length
          /\ loaded[1].lowercase = saved[1].lowercase
          /\ loaded[1].next_id = saved[1].next_id
          /\ \A text \in SampleTexts :
                WGSLTokenizer_tokenize(loaded[1], text) = WGSLTokenizer_tokenize(saved[1], text)
          /\ \A tokens \in TokenSeqs :
                WGSLTokenizer_encode(loaded[1], tokens) = WGSLTokenizer_encode(saved[1], tokens)
    /\ IsSome(loaded) => VocabularyInvariant(loaded[1])
    /\ (IsCall("load", "loaded") /\ last[1].result = "Err") => file = None

\* a fit has returned on a tokenizer loaded from the file of a fitted
\* tokenizer, and it added a token
C9_Witness ==
    /\ IsCall("fit", "loaded")
    /\ IsSome(saved)
    /\ saved[1].next_id > 4
    /\ loaded[1].next_id > saved[1].next_id
    /\ loaded[1].max_length = saved[1].max_length

----------------------------------------------------------------------------
(* softmax_vec as a function of its row: calls on rows of finite and       *)
(* non-finite scores.                                                      *)

\* a row has at most MaxRow scores
MaxRow == 3

\* the scores of the rows: the non-finite values, two finite values one
\* unit apart and one so far below that its exponential underflows
ScoreValues == {NaN, NegInf, PosInf, Fin(0), Fin(-1), Fin(0 - ExpUnderflow - 1)}

Rows == SeqsUpTo(ScoreValues, MaxRow)

SoftmaxVec ==
    /\ \E values \in Rows :
          sm' = Some([values |-> values, result |-> softmax_vec(values)])
    /\ UNCHANGED <<lex, run, att, ds, twin>>
    /\ UNCHANGED facade_vars
    /\ UNCHANGED tokenizer_vars

SoftmaxNext == SoftmaxVec

SoftmaxSpec == Init /\ [][SoftmaxNext]_vars

\* the weights of the row are quotients by one positive divisor and their
\* numerators add up to it
SumsToOne(row) ==
    /\ row # <<>>
    /\ \A k \in 1..Len(row) : row[k][2] = row[1][2] /\ row[k][2] > 0
    /\ SumSeq([k \in 1..Len(row) |-> row[k][1]]) = row[1][2]

----------------------------------------------------------------------------
(* tokenize as a state machine: one step per iteration of its while loop.  *)
(* lex holds the call under way: the argument, the text scanned (lower-    *)
(* cased or not), the offset pos, the tokens pushed so far, what the last  *)
(* iteration did (step) and the offset it started from.                    *)

MaxPieces == 3

\* the pieces the scanned texts are made of
LexPieces ==
    { <<"a", "r", "r", "a", "y", "<", "f", "3", "2", ",">>,
      <<" ">>,
      <<"4", ">">>,
      <<"v", "e", "c", "4">>,
      <<"<", "f", "3", "2", ">">>,
      <<"f", "n">>,
      <<"@", "c", "o", "m", "p", "u", "t", "e">>,
      <<"1", ".", "5">>,
      <<"#">>,
      <<"x">>,
      <<"(">>,
      <<"F", "n">> }

\* the text of test_wgsl_tokenization
WgslExample ==
    <<"f", "n", " ", "m", "a", "i", "n", "(", ")", " ", "-", ">", " ", "v",
      "e", "c", "4", "<", "f", "3", "2", ">", " ", "{", " ", "r", "e", "t",
      "u", "r", "n", " ", "v", "e", "c", "4", "<", "f", "3", "2", ">", "(",
      "1", ".", "0", ",", " ", "0", ".", "0", ",", " ", "0", ".", "0", ",",
      " ", "1", ".", "0", ")", ";", " ", "}">>

\* the text of test_attribute_tokenization
AttributeExample ==
    <<"@", "c", "o", "m", "p", "u", "t", "e", " ", "@", "w", "o", "r", "k",
      "g", "r", "o", "u", "p", "_", "s", "i", "z", "e", "(", "8", ",", " ",
      "8", ",", " ", "1", ")">>

RECURSIVE Concat(_)
Concat(parts) == IF parts = <<>> THEN <<>> ELSE Head(parts) \o Concat(Tail(parts))

LexTexts ==
    {Concat(parts) : parts \in SeqsUpTo(LexPieces, MaxPieces)}
        \cup {WgslExample, AttributeExample}

\* the pattern classes in the order tokenize tries them
Classes ==
    <<"type_spec", "attribute", "keyword", "number", "operator", "punctuation",
      "identifier">>

\* the length of the match of the class pattern at the start of remaining
\* (no pattern matches the empty string), or 0
class_match(class, remaining) ==
    CASE class = "type_spec" -> type_spec_match(remaining)
      [] class = "attribute" -> attribute_match(remaining)
      [] class = "keyword" -> keyword_match(remaining)
      [] class = "number" -> number_match(remaining)
      [] class = "operator" -> operator_match(remaining)
      [] class = "punctuation" -> punctuation_match(remaining)
      [] class = "identifier" -> identifier_match(remaining)

\* a scan that tries the identifier pattern first
first_class_identifier_first(remaining) ==
    IF identifier_match(remaining) > 0 THEN "identifier"
    ELSE IF type_spec_match(remaining) > 0 THEN "type_spec"
    ELSE IF attribute_match(remaining) > 0 THEN "attribute"
    ELSE IF keyword_match(remaining) > 0 THEN "keyword"
    ELSE IF number_match(remaining) > 0 THEN "number"
    ELSE IF operator_match(remaining) > 0 THEN "operator"
    ELSE IF punctuation_match(remaining) > 0 THEN "punctuation"
    ELSE "unmatched"

\* the chain of `if !matched { if let Some(mat) = ...find(remaining) {
\* if mat.start() == 0` of one iteration: the class whose token is pushed
first_class(remaining) ==
    IF type_spec_match(remaining) > 0 THEN "type_spec"
    ELSE IF attribute_match(remaining) > 0 THEN "attribute"
    ELSE IF keyword_match(remaining) > 0 THEN "keyword"
    ELSE IF number_match(remaining) > 0 THEN "number"
    ELSE IF operator_match(remaining) > 0 THEN "operator"
    ELSE IF punctuation_match(remaining) > 0 THEN "punctuation"
    ELSE IF identifier_match(remaining) > 0 THEN "identifier"
    ELSE "unmatched"

\* a skip that leaves the offset where it is
skip_char_stuck(l, step) == [l EXCEPT !.step = step, !.from = l.pos]

\* pos += ch.len_utf8()
skip_char(l, step) == [l EXCEPT !.pos = @ + 1, !.step = step, !.from = l.pos]

\* tokens.push(mat.as_str().to_string()); pos += mat.end()
push_token(l, class, token) ==
    [l EXCEPT !.tokens = Append(@, token), !.pos = @ + Len(token),
              !.step = class, !.from = l.pos]

scan_class(l, remaining, class) ==
    IF class = "unmatched" THEN skip_char(l, "unmatched")
    ELSE push_token(l, class, SubSeq(remaining, 1, class_match(class, remaining)))

\* one iteration of the while loop on remaining = &text[pos..]
scan(l, remaining) ==
    IF Head(remaining) \in WhitespaceChars THEN skip_char(l, "whitespace")
    ELSE scan_class(l, remaining, first_class(remaining))

\* tokenize is entered: the text is lowercased if the tokenizer says so
TokenizeBegin ==
    /\ lex = None
    /\ \E input \in LexTexts, lowercase \in BOOLEAN :
          lex' = Some([input |-> input, lowercase |-> lowercase,
                       text |-> IF lowercase THEN to_lowercase(input) ELSE input,
                       pos |-> 0, tokens |-> <<>>, step |-> "begin", from |-> 0])
    /\ UNCHANGED <<sm, run, att, ds, twin>>
    /\ UNCHANGED facade_vars
    /\ UNCHANGED tokenizer_vars

\* while pos < text.len(): one iteration
TokenizeStep ==
    /\ IsSome(lex)
    /\ lex[1].step # "returned"
    /\ lex[1].pos < Len(lex[1].text)
    /\ lex' = Some(scan(lex[1], SubSeq(lex[1].text, lex[1].pos + 1, Len(lex[1].text))))
    /\ UNCHANGED <<sm, run, att, ds, twin>>
    /\ UNCHANGED facade_vars
    /\ UNCHANGED tokenizer_vars

\* the loop is left and tokens returned
TokenizeReturn ==
    /\ IsSome(lex)
    /\ lex[1].step # "returned"
    /\ lex[1].pos >= Len(lex[1].text)
    /\ lex' = Some([lex[1] EXCEPT !.step = "returned", !.from = lex[1].pos])
    /\ UNCHANGED <<sm, run, att, ds, twin>>
    /\ UNCHANGED facade_vars
    /\ UNCHANGED tokenizer_vars

LexNext == TokenizeBegin \/ TokenizeStep \/ TokenizeReturn

LexSpec == Init /\ [][LexNext]_vars

\* a call of tokenize runs on to its return
LexLiveSpec == LexSpec /\ WF_vars(TokenizeStep) /\ WF_vars(TokenizeReturn)

----------------------------------------------------------------------------
(* Claims about the scan of tokenize.                                      *)

\* what the last iteration had before it: &text[from..]
Remaining(l) == SubSeq(l.text, l.from + 1, Len(l.text))

\* the last token pushed
LastToken(l) == l.tokens[Len(l.tokens)]

(* C13: the token an iteration pushes is the match, at the offset the      *)
(* iteration started from, of the first class in the order type_spec,      *)
(* attribute, keyword, number, operator, punctuation, identifier whose     *)
(* pattern matches there, and a character is skipped as unmatched only     *)
(* when no class matches; vec4<f32> comes out as one token, and @compute   *)
(* and @workgroup_size as the first two tokens of the attribute example.   *)
C13_FirstClassInPriorityOrder ==
    IsSome(lex) =>
        /\ lex[1].step \in Range(Classes) =>
              \E c \in 1..Len(Classes) :
                 /\ Classes[c] = lex[1].step
                 /\ class_match(Classes[c], Remaining(lex[1])) > 0
                 /\ \A d \in 1..(c - 1) : class_match(Classes[d], Remaining(lex[1])) = 0
                 /\ LastToken(lex[1]) =
                       SubSeq(Remaining(lex[1]), 1, class_match(Classes[c], Remaining(lex[1])))
                 /\ lex[1].pos = lex[1].from + Len(LastToken(lex[1]))
        /\ lex[1].step = "unmatched" =>
              \A c \in 1..Len(Classes) : class_match(Classes[c], Remaining(lex[1])) = 0
        /\ (lex[1].step = "returned" /\ lex[1].input = <<"v", "e", "c", "4", "<", "f", "3", "2", ">">>) =>
              lex[1].tokens = <<<<"v", "e", "c", "4", "<", "f", "3", "2", ">">>>>
        /\ (lex[1].step = "returned" /\ lex[1].input = AttributeExample) =>
              /\ Len(lex[1].tokens) >= 2
              /\ lex[1].tokens[1] = <<"@", "c", "o", "m", "p", "u", "t", "e">>
              /\ lex[1].tokens[2] = <<"@", "w", "o", "r", "k", "g", "r", "o", "u", "p", "_", "s", "i", "z", "e">>

\* an iteration has pushed vec4<f32> as a type specifier at an offset where
\* the identifier pattern matches as well
C13_Witness ==
    /\ IsSome(lex)
    /\ lex[1].step = "type_spec"
    /\ LastToken(lex[1]) = <<"v", "e", "c", "4", "<", "f", "3", "2", ">">>
    /\ identifier_match(Remaining(lex[1])) = 4
    /\ lex[1].from > 0

\* what a step of tokenize does to the offset and the tokens
TokenizeAdvances ==
    IF lex'[1].step = "returned"
    THEN /\ lex[1].pos >= Len(lex[1].text)
         /\ lex'[1].tokens = lex[1].tokens
         /\ lex'[1].tokens = tokenize(lex[1].lowercase, lex[1].input)
    ELSE /\ lex'[1].pos > lex[1].pos
         /\ lex'[1].pos <= Len(lex[1].text)
         /\ lex'[1].step \in {"whitespace", "unmatched"} =>
               /\ lex'[1].pos = lex[1].pos + 1
               /\ lex'[1].tokens = lex[1].tokens
         /\ lex'[1].step \in Range(Classes) =>
               lex'[1].tokens =
                  Append(lex[1].tokens, SubSeq(lex[1].text, lex[1].pos + 1, lex'[1].pos))

(* C14: every iteration of tokenize's loop moves the offset forward by at  *)
(* least one character and never past the end of the text; an iteration    *)
(* that skips whitespace or an unmatched character moves it by one and     *)
(* pushes nothing; and every call of tokenize goes on to return its        *)
(* tokens.                                                                 *)
C14_TokenizeTerminates ==
    /\ [][(IsSome(lex) /\ lex' # lex) => TokenizeAdvances]_vars
    /\ (IsSome(lex) ~> (IsSome(lex) /\ lex[1].step = "returned"))

\* tokenize has returned the two tokens of a text with a character that
\* matches no class between them
C14_Witness ==
    /\ IsSome(lex)
    /\ lex[1].step = "returned"
    /\ lex[1].input = <<"f", "n", "#", "x">>
    /\ lex[1].tokens = <<<<"f", "n">>, <<"x">>>>

\* C15: no token tokenize has pushed holds a whitespace character.
C15_NoWhitespaceInTokens ==
    IsSome(lex) =>
        \A t \in 1..Len(lex[1].tokens) :
            \A k \in 1..Len(lex[1].tokens[t]) :
                lex[1].tokens[t][k] \notin WhitespaceChars

----------------------------------------------------------------------------
(* src/src/model/mod.rs: from_model_config, and src/src/training/mod.rs:   *)
(* Trainer::train, with the calls on the model they build or are given.    *)

MaxEpochs == 1

\* the architecture strings of the configs: casings of the two recognized
\* names, an unknown name and the empty string
ArchitectureNames ==
    { <<"t", "r", "a", "n", "s", "f", "o", "r", "m", "e", "r">>,
      <<"T", "r", "a", "n", "s", "f", "o", "r", "m", "e", "r">>,
      <<"T", "R", "A", "N", "S", "F", "O", "R", "M", "E", "R">>,
      <<"l", "s", "t", "m">>,
      <<"L", "S", "T", "M">>,
      <<"L", "s", "T", "m">>,
      <<"g", "r", "u">>,
      <<>> }

\* a match on the string as it stands
select_architecture_exact(name) ==
    IF name = <<"l", "s", "t", "m">> THEN "LSTM" ELSE "Transformer"

\* match config.architecture.to_lowercase().as_str()
select_architecture(name) ==
    IF to_lowercase(name) = <<"t", "r", "a", "n", "s", "f", "o", "r", "m", "e", "r">> THEN "Transformer"
    ELSE IF to_lowercase(name) = <<"l", "s", "t", "m">> THEN "LSTM"
    ELSE "Transformer"

\* the arguments from_model_config passes to new
from_model_config_args(vocab_size, config) ==
    [architecture |-> select_architecture(config.architecture),
     vocab_size |-> vocab_size,
     d_model |-> config.d_model, nhead |-> config.nhead,
     num_layers |-> config.num_layers,
     dim_feedforward |-> Some(config.dim_feedforward),
     max_seq_len |-> Some(config.max_seq_len)]

\* the ModelConfig values explored: every architecture string, widths and
\* head counts that divide or not, short and long maximum lengths
ModelConfigs ==
    [architecture : ArchitectureNames, d_model : 1..MaxDim, nhead : 1..MaxDim,
     num_layers : {MaxLayers}, dim_feedforward : {MaxFF},
     max_seq_len : {1, MaxSeq + 1}]

\* the outcome of new on the arguments c
new_outcome(c) ==
    IF CodeGenerationModel_new_panics(c.architecture, c.vocab_size, c.d_model, c.nhead, c.num_layers, c.dim_feedforward, c.max_seq_len)
    THEN "panicked" ELSE "returned"

\* what new returns on the arguments c, if it returns
new_model(c) ==
    IF new_outcome(c) = "panicked" THEN None
    ELSE Some(CodeGenerationModel_new(c.architecture, c.vocab_size, c.d_model, c.nhead, c.num_layers, c.dim_feedforward, c.max_seq_len))

\* the call of new that from_model_config ends with
construct(c) ==
    /\ ctor' = [outcome |-> new_outcome(c), architecture |-> c.architecture,
                vocab_size |-> c.vocab_size, d_model |-> c.d_model,
                nhead |-> c.nhead, num_layers |-> c.num_layers,
                dim_feedforward |-> c.dim_feedforward,
                max_seq_len |-> c.max_seq_len]
    /\ model' = new_model(c)

FromModelConfig ==
    /\ ctor.outcome = "none"
    /\ \E vocab_size \in {1, MaxVocab}, config \in ModelConfigs :
          /\ cfg' = Some([vocab_size |-> vocab_size, config |-> config])
          /\ construct(from_model_config_args(vocab_size, config))
    /\ UNCHANGED <<fwd, nparams, trained>>
    /\ UNCHANGED tokenizer_vars
    /\ UNCHANGED pure_vars

\* a train that rewrites the weights of the model it is given
Train_updates_parameters ==
    /\ IsSome(model)
    /\ \E num_epochs \in 0..MaxEpochs :
          /\ trained' = Some([final_loss |-> "0.1", best_loss |-> "0.05",
                              epochs_completed |-> num_epochs,
                              training_time_secs |-> "0.0"])
          /\ model' = IF IsSome(model[1].transformer)
                      THEN Some([model[1] EXCEPT
                                   !.transformer[1].parameters.seed = @ + num_epochs])
                      ELSE model
    /\ UNCHANGED <<ctor, fwd, nparams, cfg>>
    /\ UNCHANGED tokenizer_vars
    /\ UNCHANGED pure_vars

\* Trainer::train(&mut self, _model): the placeholder results of a trainer
\* configured for num_epochs; _model is not used
Train ==
    /\ IsSome(model)
    /\ \E num_epochs \in 0..MaxEpochs :
          trained' = Some([final_loss |-> "0.1", best_loss |-> "0.05",
                           epochs_completed |-> num_epochs,
                           training_time_secs |-> "0.0"])
    /\ UNCHANGED <<ctor, model, fwd, nparams, cfg>>
    /\ UNCHANGED tokenizer_vars
    /\ UNCHANGED pure_vars

FrameNext == New(ForwardConfigs) \/ FromModelConfig \/ Forward \/ NumParameters \/ Train

FrameSpec == Init /\ [][FrameNext]_vars

----------------------------------------------------------------------------
(* Claims about from_model_config and the immutability of the model.       *)

\* the two characters are one letter in either case, or the same character
SameLetter(a, b) ==
    \/ a = b
    \/ \E k \in 1..Len(LowerLetters) :
          {a, b} = {LowerLetters[k], UpperLetters[k]}

\* name is word in some casing
IsCasingOf(name, word) ==
    /\ Len(name) = Len(word)
    /\ \A k \in 1..Len(word) : SameLetter(name[k], word[k])

(* C16: a from_model_config call passes to new the architecture LSTM when  *)
(* the config string is "lstm" in any casing and Transformer for every     *)
(* other string, any casing of "transformer" included, together with the   *)
(* vocabulary size; the model it returns has the config's d_model, nhead,  *)
(* num_layers, dim_feedforward and max_seq_len.                            *)
C16_FromModelConfig ==
    IsSome(cfg) =>
        /\ ctor.outcome # "none"
        /\ IsCasingOf(cfg[1].config.architecture, <<"t", "r", "a", "n", "s", "f", "o", "r", "m", "e", "r">>) =>
              ctor.architecture = "Transformer"
        /\ IsCasingOf(cfg[1].config.architecture, <<"l", "s", "t", "m">>) =>
              ctor.architecture = "LSTM"
        /\ ~IsCasingOf(cfg[1].config.architecture, <<"l", "s", "t", "m">>) =>
              ctor.architecture = "Transformer"
        /\ ctor.outcome = "returned" =>
              /\ IsSome(model)
              /\ model[1].architecture = ctor.architecture
              /\ model[1].vocab_size = cfg[1].vocab_size
              /\ model[1].d_model = cfg[1].config.d_model
              /\ model[1].nhead = cfg[1].config.nhead
              /\ model[1].num_layers = cfg[1].config.num_layers
              /\ model[1].dim_feedforward = cfg[1].config.dim_feedforward
              /\ model[1].max_seq_len = cfg[1].config.max_seq_len

\* from_model_config has returned an LSTM model for the string "LsTm", with
\* a feed-forward width and a maximum length other than the defaults
C16_Witness ==
    /\ IsSome(cfg)
    /\ cfg[1].config.architecture = <<"L", "s", "T", "m">>
    /\ ctor.outcome = "returned"
    /\ IsLSTM
    /\ model[1].dim_feedforward = MaxFF
    /\ model[1].max_seq_len = MaxSeq + 1
    /\ model[1].d_model = 2 /\ model[1].nhead = 1

(* C18: once a model is constructed no call changes it: every step of      *)
(* forward, num_parameters and Trainer::train leaves the model, with its   *)
(* parameters and configuration fields, as it was; and the result of the   *)
(* last forward call is the one forward gives for the model and that       *)
(* input, whatever calls came before.                                      *)
C18_ModelIsImmutable ==
    [][IsSome(model) =>
          /\ model' = model
          /\ ctor' = ctor
          /\ cfg' = cfg
          /\ fwd'.outcome # "none" =>
                fwd' = CodeGenerationModel_forward(model[1], fwd'.input)
          /\ IsSome(nparams') =>
                nparams' = Some(CodeGenerationModel_num_parameters(model[1]))]_vars

\* a transformer has been trained, asked for its parameter count and run
\* forward, and is still the model new returns on the arguments it got
C18_Witness ==
    /\ IsTransformer
    /\ IsSome(trained) /\ trained[1].epochs_completed = MaxEpochs
    /\ IsSome(nparams)
    /\ fwd.outcome = "returned" /\ Len(fwd.input) >= 1
    /\ model = new_model(ctor)

----------------------------------------------------------------------------
(* Claims about the attention weights and the logits of forward.           *)

\* a weight that is exactly 0.0
IsZeroWeight(w) == w[1] = 0 /\ w[2] # 0

(* C11: whenever forward returned on a transformer, the look-ahead mask    *)
(* holds -inf exactly at the entries with j > i, and in every decoder      *)
(* layer and every head the self-attention weight of query position i on   *)
(* every key position j > i is exactly zero after softmax.                 *)
C11_FutureKeysGetZeroWeight ==
    (IsTransformer /\ fwd.outcome = "returned") =>
        /\ \A i, j \in 1..Len(fwd.decoder_ids) :
              (fwd.masks[1].look_ahead.at[i, j] = NEG_INFINITY) <=> (j > i)
        /\ \A l \in 1..Len(fwd.attention.decoder_self) :
              \A head \in 1..Len(fwd.attention.decoder_self[l]) :
                 \A i, j \in 1..Len(fwd.decoder_ids) :
                    j > i => IsZeroWeight(fwd.attention.decoder_self[l][head][i][j])

\* forward returned with two decoder positions and a second head, whose raw
\* scores favour the later key: the first position still puts its whole
\* weight on itself
C11_Witness ==
    /\ IsTransformer /\ fwd.outcome = "returned"
    /\ Len(fwd.decoder_ids) = 2
    /\ Len(fwd.attention.decoder_self) >= 1
    /\ Len(fwd.attention.decoder_self[1]) >= 2
    /\ IsZeroWeight(fwd.attention.decoder_self[1][2][1][2])
    /\ fwd.attention.decoder_self[1][2][1][1][1] = fwd.attention.decoder_self[1][2][1][1][2]
    /\ ~IsZeroWeight(fwd.attention.decoder_self[1][2][2][2])

(* C17: the LSTM model is a stub: every forward call on it returns, with   *)
(* exactly vocab_size logits that are all 0.0, whatever the input; it      *)
(* holds no transformer, and every num_parameters call on it returns 0.    *)
C17_LstmIsStub ==
    IsLSTM =>
        /\ model[1].transformer = None
        /\ fwd.outcome # "none" =>
              /\ fwd.outcome = "returned"
              /\ fwd.output_len = Some(model[1].vocab_size)
              /\ fwd.values = "zeros"
        /\ IsSome(nparams) => nparams[1] = 0

\* an LSTM model with a vocabulary has answered forward on an input holding
\* an id outside the vocabulary, and num_parameters
C17_Witness ==
    /\ IsLSTM
    /\ model[1].vocab_size >= 2
    /\ fwd.outcome = "returned"
    /\ \E k \in 1..Len(fwd.input) : fwd.input[k] >= model[1].vocab_size
    /\ fwd.output_len = Some(model[1].vocab_size)
    /\ nparams = Some(0)

C20_LastDecoderRow ==
    (IsTransformer /\ fwd.outcome = "returned") =>
        /\ fwd.logits = <<Len(fwd.decoder_ids), model[1].vocab_size>>
        /\ fwd.last_row = Some(Len(fwd.decoder_ids) - 1)
        /\ fwd.output_len = Some(model[1].vocab_size)

\* forward returned on a decoder sequence of more than one position
C20_Witness ==
    /\ IsTransformer /\ fwd.outcome = "returned"
    /\ Len(fwd.decoder_ids) = Len(fwd.input) + 1
    /\ Len(fwd.decoder_ids) >= 3
    /\ fwd.last_row = Some(Len(fwd.input))

-----------------------------------------------------------------------------
(* WGSLDataset::split as a function of the length of the dataset and of    *)
(* its two ratios. An example is its position in the source dataset, a     *)
(* dataset is the range <<from, to>> of the positions it holds, and an f32 *)
(* is a record [m, e] of value m * 2^e.                                    *)

\* the number of significant binary digits of an f32
MANTISSA_DIGITS == 24

\* small datasets hold at most MaxExamples examples
MaxExamples == 5

\* large datasets hold up to MaxExcess examples more than 2^MANTISSA_DIGITS
MaxExcess == 3

\* the ratios are the literals 0.0, 0.1, ... up to MaxTenths tenths
MaxTenths == 10

\* the number of binary digits of n
RECURSIVE bits(_)
bits(n) == IF n = 0 THEN 0 ELSE 1 + bits(n \div 2)

\* n / d rounded to the nearest integer, a tie to the even one
round_ties_even(n, d) ==
    LET q == n \div d
        r == n % d
    IN  IF 2 * r > d \/ (2 * r = d /\ q % 2 = 1) THEN q + 1 ELSE q

\* the same value with an odd m
RECURSIVE normalise(_)
normalise(f) ==
    IF f.m = 0 THEN [m |-> 0, e |-> 0]
    ELSE IF f.m % 2 = 0 THEN normalise([m |-> f.m \div 2, e |-> f.e + 1])
    ELSE f

\* the f32 nearest to m * 2^e
f32_round(m, e) ==
    IF bits(m) <= MANTISSA_DIGITS THEN normalise([m |-> m, e |-> e])
    ELSE normalise([m |-> round_ties_even(m, Pow2(bits(m) - MANTISSA_DIGITS)),
                    e |-> e + bits(m) - MANTISSA_DIGITS])

\* `total as f32`
usize_as_f32(n) == f32_round(n, 0)

\* the product of two f32
f32_mul(a, b) == f32_round(a.m * b.m, a.e + b.e)

\* `x as usize` of an f32 that is not negative: the fraction is dropped
f32_as_usize(f) == IF f.e >= 0 THEN f.m * Pow2(f.e) ELSE f.m \div Pow2(0 - f.e)

\* the least s with tenths * 2^s >= 10 * 2^(MANTISSA_DIGITS - 1)
RECURSIVE literal_shift(_, _)
literal_shift(tenths, s) ==
    IF tenths * Pow2(s) >= 10 * Pow2(MANTISSA_DIGITS - 1) THEN s
    ELSE literal_shift(tenths, s + 1)

\* the f32 of the decimal literal tenths / 10
f32_literal(tenths) ==
    IF tenths = 0 THEN [m |-> 0, e |-> 0]
    ELSE normalise([m |-> round_ties_even(tenths * Pow2(literal_shift(tenths, 0)), 10),
                    e |-> 0 - literal_shift(tenths, 0)])

\* the three datasets of a split into train_size, val_size and the rest
split_slices(total, train_size, val_size) ==
    IF train_size > total \/ train_size + val_size > total
    THEN [outcome |-> "panicked", train |-> <<>>, val |-> <<>>, test |-> <<>>]
    ELSE [outcome |-> "returned",
          train |-> <<0, train_size>>,
          val |-> <<train_size, train_size + val_size>>,
          test |-> <<train_size + val_size, total>>]

\* WGSLDataset::split on a dataset of `total` examples: a slice whose end
\* lies beyond the dataset panics
WGSLDataset_split(total, train_ratio, val_ratio) ==
    split_slices(total, f32_as_usize(f32_mul(usize_as_f32(total), train_ratio)),
                 f32_as_usize(f32_mul(usize_as_f32(total), val_ratio)))

\* the ratios of the calls
Ratios == {f32_literal(tenths) : tenths \in 0..MaxTenths}

\* the ratios of the calls on large datasets: zero and the powers of two
LargeRatios == {r \in Ratios : r.m <= 1}

LargeTotals == {Pow2(MANTISSA_DIGITS) + k : k \in 1..MaxExcess}

\* the calls: any ratios on a small dataset, the ratios whose products stay
\* below 2^31 on a large one
SplitCalls ==
    ((0..MaxExamples) \X Ratios \X Ratios) \cup (LargeTotals \X LargeRatios \X LargeRatios)

\* split borrows the dataset: `examples` is what the dataset holds after
\* the call
Split ==
    /\ \E call \in SplitCalls :
          ds' = Some([total |-> call[1], train_ratio |-> call[2], val_ratio |-> call[3],
                      examples |-> <<0, call[1]>>,
                      result |-> WGSLDataset_split(call[1], call[2], call[3])])
    /\ UNCHANGED <<sm, lex, run, att, twin>>
    /\ UNCHANGED facade_vars
    /\ UNCHANGED tokenizer_vars

SplitNext == Split

SplitSpec == Init /\ [][SplitNext]_vars

-----------------------------------------------------------------------------
(* Two CodeGenerationModel instances constructed from the same arguments,  *)
(* and forward on both with the same input. A weight is a sample of the    *)
(* generator: the tensors of an instance are records of the seed of the    *)
(* generator and of the range of its samples that they hold.               *)

\* a generator seeded from what differs between two constructions
rng_seed_from_entropy(t, instance) == t.parameters.seed + instance

\* the seed of the generator that Transformer::new samples the weights of
\* the instance from: StdRng::seed_from_u64(42), whichever instance it is
rng_seed(t, instance) == t.parameters.seed

\* the tensors of the layers from the i-th on with the number of samples
\* each takes, in the order Transformer::new makes them: the encoder layer
\* (self_attn, feedforward), then the decoder layer (self_attn, cross_attn,
\* feedforward); a LayerNorm takes no sample
RECURSIVE layer_draws(_, _)
layer_draws(t, i) ==
    IF i > Len(t.encoder_layers) THEN <<>>
    ELSE << [tensor |-> <<"encoder_layer", i>>,
             count |-> MultiHeadAttention_num_parameters(t.encoder_layers[i].self_attn)
                        + FeedForward_num_parameters(t.encoder_layers[i].feedforward)],
            [tensor |-> <<"decoder_layer", i>>,
             count |-> MultiHeadAttention_num_parameters(t.decoder_layers[i].self_attn)
                        + MultiHeadAttention_num_parameters(t.decoder_layers[i].cross_attn)
                        + FeedForward_num_parameters(t.decoder_layers[i].feedforward)] >>
         \o layer_draws(t, i + 1)

\* the tensors that Transformer::new fills by rng.sample, in the order of
\* the calls
draw_order(t) ==
    << [tensor |-> <<"token_embedding", 0>>, count |-> len2(t.token_embedding)] >>
        \o layer_draws(t, 1)
        \o << [tensor |-> <<"final_linear_weight", 0>>, count |-> len2(t.final_linear_weight)],
              [tensor |-> <<"final_linear_bias", 0>>, count |-> t.final_linear_bias] >>

\* the weights of a transformer whose generator has the seed `seed`: the
\* k-th tensor holds the samples that follow those of the tensors before it
sample_parameters(order, seed) ==
    [k \in 1..Len(order) |->
        [tensor |-> order[k].tensor, seed |-> seed,
         first |-> SumSeq([j \in 1..(k - 1) |-> order[j].count]),
         count |-> order[k].count]]

\* the instance that CodeGenerationModel::new returns on the arguments c,
\* if it returns: the LSTM holds no weights
new_instance(c, instance) ==
    [model |-> new_model(c),
     parameters |->
        IF IsSome(new_model(c)) /\ IsSome(new_model(c)[1].transformer)
        THEN sample_parameters(draw_order(new_model(c)[1].transformer[1]),
                               rng_seed(new_model(c)[1].transformer[1], instance))
        ELSE <<>>]

\* forward on an instance: the logits of a transformer are computed from
\* its weights and the input
instance_forward(x, input_ids) ==
    [call |-> CodeGenerationModel_forward(x.model[1], input_ids),
     computed_from |->
        IF CodeGenerationModel_forward(x.model[1], input_ids).outcome = "returned"
        THEN x.parameters ELSE <<>>]

\* the arguments of the two constructions: every architecture, vocabulary
\* size, depth and maximum sequence length
TwinConfigs ==
    [architecture : Architectures, vocab_size : VocabSizes,
     d_model : {MaxDim}, nhead : {1, MaxDim}, num_layers : LayerCounts,
     dim_feedforward : {Some(MaxFF)}, max_seq_len : SeqLens]

NoOutput == [call |-> NoForward, computed_from |-> <<>>]

\* new is called twice with the same arguments
TwinNew ==
    /\ twin = None
    /\ \E c \in TwinConfigs :
          twin' = Some([args |-> c,
                        first |-> new_instance(c, 1),
                        second |-> new_instance(c, 2),
                        input |-> None,
                        first_output |-> NoOutput,
                        second_output |-> NoOutput])
    /\ UNCHANGED <<sm, lex, run, att, ds>>
    /\ UNCHANGED facade_vars
    /\ UNCHANGED tokenizer_vars

\* forward is called on both instances with the same input
TwinForward ==
    /\ IsSome(twin)
    /\ IsSome(twin[1].first.model)
    /\ IsSome(twin[1].second.model)
    /\ \E input_ids \in Inputs :
          twin' = Some([twin[1] EXCEPT
                          !.input = Some(input_ids),
                          !.first_output = instance_forward(twin[1].first, input_ids),
                          !.second_output = instance_forward(twin[1].second, input_ids)])
    /\ UNCHANGED <<sm, lex, run, att, ds>>
    /\ UNCHANGED facade_vars
    /\ UNCHANGED tokenizer_vars

TwinNext == TwinNew \/ TwinForward

TwinSpec == Init /\ [][TwinNext]_vars

----------------------------------------------------------------------------
(* Claims about the masks, the order of the blocks and the positions.      *)

\* m is a rows x cols matrix of entries 0.0 or -inf
IsMask(m, rows, cols) ==
    /\ mask_shape(m) = <<rows, cols>>
    /\ DOMAIN m.at = (1..rows) \X (1..cols)
    /\ \A i \in 1..rows, j \in 1..cols : m.at[i, j] \in {ZERO, NEG_INFINITY}

\* the entry (i, j) of m is -inf exactly when key j of ids is the padding id
\* or, with causal set, j > i
MasksExactly(m, ids, causal) ==
    \A i \in 1..m.rows, j \in 1..m.cols :
        (m.at[i, j] = NEG_INFINITY) <=>
            (ids[j] = token_id("Padding") \/ (causal /\ j > i))

(* C21: in every forward call that builds its masks, with n encoder ids    *)
(* and m decoder ids, the encoder self mask is n x n, the decoder padding  *)
(* mask, the look-ahead mask and their sum are m x m (combine_masks does   *)
(* not panic), the cross mask is m x n, every entry is 0.0 or -inf, and an *)
(* entry (i, j) is -inf exactly when key j holds the padding id or, in the *)
(* combined decoder mask, when j > i as well.                              *)
C21_MaskShapesAndEntries ==
    IsSome(fwd.masks) =>
        /\ IsMask(fwd.masks[1].encoder_self_mask, Len(fwd.encoder_ids), Len(fwd.encoder_ids))
        /\ IsMask(fwd.masks[1].decoder_self_mask, Len(fwd.decoder_ids), Len(fwd.decoder_ids))
        /\ IsMask(fwd.masks[1].look_ahead, Len(fwd.decoder_ids), Len(fwd.decoder_ids))
        /\ IsMask(fwd.masks[1].decoder_mask, Len(fwd.decoder_ids), Len(fwd.decoder_ids))
        /\ IsMask(fwd.masks[1].cross_mask, Len(fwd.decoder_ids), Len(fwd.encoder_ids))
        /\ ~combine_masks_panics(fwd.masks[1].decoder_self_mask, fwd.masks[1].look_ahead)
        /\ MasksExactly(fwd.masks[1].encoder_self_mask, fwd.encoder_ids, FALSE)
        /\ MasksExactly(fwd.masks[1].decoder_self_mask, fwd.decoder_ids, FALSE)
        /\ MasksExactly(fwd.masks[1].decoder_mask, fwd.decoder_ids, TRUE)
        /\ MasksExactly(fwd.masks[1].cross_mask, fwd.encoder_ids, FALSE)

\* the masks of a call with two encoder ids, the first one padding, and
\* three decoder ids: the padding column is -inf in the rows of the other
\* ids too
C21_Witness ==
    /\ IsSome(fwd.masks)
    /\ Len(fwd.encoder_ids) = 2 /\ Len(fwd.decoder_ids) = 3
    /\ fwd.encoder_ids[1] = token_id("Padding")
    /\ fwd.encoder_ids[2] # token_id("Padding")
    /\ fwd.masks[1].encoder_self_mask.at[2, 1] = NEG_INFINITY
    /\ fwd.masks[1].encoder_self_mask.at[1, 2] = ZERO
    /\ fwd.masks[1].decoder_mask.at[3, 2] = NEG_INFINITY
    /\ fwd.masks[1].cross_mask.at[3, 1] = NEG_INFINITY

----------------------------------------------------------------------------
(* Transformer::forward as a state machine: one step per iteration of its  *)
(* two loops. A value of the run is the record of where it was produced    *)
(* (from) and of its shape; applied lists the layers run so far, each with *)
(* the arguments of the attention calls it made.                           *)

MaxBlocks == 3

\* the attention call EncoderLayer::forward makes on x
EncoderLayer_calls(x, mask) ==
    [self_attn |-> [query |-> x, key |-> x, value |-> x, mask |-> mask]]

\* a decoder layer whose cross-attention is given the self-attention mask
DecoderLayer_calls_self_mask(x, encoder_states, self_mask, cross_mask) ==
    [self_attn |-> [query |-> x, key |-> x, value |-> x, mask |-> self_mask],
     cross_attn |-> [query |-> <<"normed1", x>>, key |-> encoder_states,
                     value |-> encoder_states, mask |-> self_mask]]

\* the attention calls DecoderLayer::forward makes: self-attention on x,
\* then cross-attention from normed1 = norm1(x + self_attn) to encoder_states
DecoderLayer_calls(x, encoder_states, self_mask, cross_mask) ==
    [self_attn |-> [query |-> x, key |-> x, value |-> x, mask |-> self_mask],
     cross_attn |-> [query |-> <<"normed1", x>>, key |-> encoder_states,
                     value |-> encoder_states, mask |-> cross_mask]]

\* the states and masks of Transformer::forward before its loops
forward_begin(t, encoder_ids, decoder_ids) ==
    [t |-> t, encoder_ids |-> encoder_ids, decoder_ids |-> decoder_ids,
     pc |-> "encoder_layers", next |-> 1,
     encoder_states |-> [from |-> <<"embed", "encoder_ids">>,
                         shape |-> embed(t, encoder_ids)],
     decoder_states |-> [from |-> <<"embed", "decoder_ids">>,
                         shape |-> embed(t, decoder_ids)],
     encoder_self_mask |-> self_padding_mask(encoder_ids),
     decoder_mask |-> combine_masks(self_padding_mask(decoder_ids),
                                    look_ahead_mask(Len(decoder_ids))),
     cross_mask |-> cross_padding_mask(Len(decoder_ids), encoder_ids),
     applied |-> <<>>]

\* encoder_states = layer.forward(&encoder_states, Some(&encoder_self_mask))
encoder_iteration(r) ==
    [r EXCEPT
        !.encoder_states =
            [from |-> <<"encoder_layers", r.next>>,
             shape |-> EncoderLayer_forward(r.t.encoder_layers[r.next],
                          r.encoder_states.shape, Some(r.encoder_self_mask))],
        !.next = @ + 1,
        !.applied = Append(@,
            [layer |-> <<"encoder_layers", r.next>>,
             calls |-> EncoderLayer_calls(r.encoder_states.from, r.encoder_self_mask)])]

\* decoder_states = layer.forward(&decoder_states, &encoder_states,
\*                                Some(&decoder_mask), Some(&cross_mask))
decoder_iteration(r) ==
    [r EXCEPT
        !.decoder_states =
            [from |-> <<"decoder_layers", r.next>>,
             shape |-> DecoderLayer_forward(r.t.decoder_layers[r.next],
                          r.decoder_states.shape, r.encoder_states.shape,
                          Some(r.decoder_mask), Some(r.cross_mask))],
        !.next = @ + 1,
        !.applied = Append(@,
            [layer |-> <<"decoder_layers", r.next>>,
             calls |-> DecoderLayer_calls(r.decoder_states.from, r.encoder_states.from,
                          r.decoder_mask, r.cross_mask)])]

\* forward is entered on a transformer of some depth that every input fits
TransformerBegin ==
    /\ run = None
    /\ \E num_layers \in 0..MaxBlocks, input_ids \in Inputs :
          run' = Some(forward_begin(
                    Transformer_new(MaxVocab + 1, MaxDim, MaxDim, num_layers, MaxSeq + 1, MaxFF),
                    sanitize_ids(Transformer_new(MaxVocab + 1, MaxDim, MaxDim, num_layers, MaxSeq + 1, MaxFF), input_ids),
                    sanitize_ids(Transformer_new(MaxVocab + 1, MaxDim, MaxDim, num_layers, MaxSeq + 1, MaxFF), <<token_id("StartOfSequence")>> \o input_ids)))
    /\ UNCHANGED <<sm, lex, att, ds, twin>>
    /\ UNCHANGED facade_vars
    /\ UNCHANGED tokenizer_vars

\* for layer in &self.encoder_layers: one iteration
EncoderBlock ==
    /\ IsSome(run)
    /\ run[1].pc = "encoder_layers"
    /\ run[1].next <= Len(run[1].t.encoder_layers)
    /\ run' = Some(encoder_iteration(run[1]))
    /\ UNCHANGED <<sm, lex, att, ds, twin>>
    /\ UNCHANGED facade_vars
    /\ UNCHANGED tokenizer_vars

\* the encoder loop is left for the decoder loop
EncoderDone ==
    /\ IsSome(run)
    /\ run[1].pc = "encoder_layers"
    /\ run[1].next > Len(run[1].t.encoder_layers)
    /\ run' = Some([run[1] EXCEPT !.pc = "decoder_layers", !.next = 1])
    /\ UNCHANGED <<sm, lex, att, ds, twin>>
    /\ UNCHANGED facade_vars
    /\ UNCHANGED tokenizer_vars

\* for layer in &self.decoder_layers: one iteration
DecoderBlock ==
    /\ IsSome(run)
    /\ run[1].pc = "decoder_layers"
    /\ run[1].next <= Len(run[1].t.decoder_layers)
    /\ run' = Some(decoder_iteration(run[1]))
    /\ UNCHANGED <<sm, lex, att, ds, twin>>
    /\ UNCHANGED facade_vars
    /\ UNCHANGED tokenizer_vars

\* the decoder loop is left and the logits returned
TransformerReturn ==
    /\ IsSome(run)
    /\ run[1].pc = "decoder_layers"
    /\ run[1].next > Len(run[1].t.decoder_layers)
    /\ run' = Some([run[1] EXCEPT !.pc = "returned"])
    /\ UNCHANGED <<sm, lex, att, ds, twin>>
    /\ UNCHANGED facade_vars
    /\ UNCHANGED tokenizer_vars

BlockNext ==
    TransformerBegin \/ EncoderBlock \/ EncoderDone \/ DecoderBlock \/ TransformerReturn

BlockSpec == Init /\ [][BlockNext]_vars

\* where the states a layer of the run consumes were produced: the layer
\* before it in its stack, or embed for the first
Previous(stack, ids, k) == IF k = 1 THEN <<"embed", ids>> ELSE <<stack, k - 1>>

\* where the final encoder states of a run over depth layers were produced
FinalEncoderStates(depth) == Previous("encoder_layers", "encoder_ids", depth + 1)

\* the k-th layer applied is the encoder layer k, fed the output of the
\* encoder layer before it under the encoder padding mask
IsEncoderBlock(r, k) ==
    /\ r.applied[k].layer = <<"encoder_layers", k>>
    /\ r.applied[k].calls =
          EncoderLayer_calls(Previous("encoder_layers", "encoder_ids", k),
                             self_padding_mask(r.encoder_ids))

\* the (depth + k)-th layer applied is the decoder layer k: its
\* self-attention is fed the output of the decoder layer before it, its
\* cross-attention takes its queries from the decoder side, its keys and
\* values from the final encoder states, and the encoder padding mask
IsDecoderBlock(r, depth, k) ==
    /\ r.applied[depth + k].layer = <<"decoder_layers", k>>
    /\ r.applied[depth + k].calls.self_attn.query = Previous("decoder_layers", "decoder_ids", k)
    /\ r.applied[depth + k].calls.self_attn.key = Previous("decoder_layers", "decoder_ids", k)
    /\ r.applied[depth + k].calls.self_attn.value = Previous("decoder_layers", "decoder_ids", k)
    /\ r.applied[depth + k].calls.cross_attn.query =
          <<"normed1", Previous("decoder_layers", "decoder_ids", k)>>
    /\ r.applied[depth + k].calls.cross_attn.key = FinalEncoderStates(depth)
    /\ r.applied[depth + k].calls.cross_attn.value = FinalEncoderStates(depth)
    /\ r.applied[depth + k].calls.cross_attn.mask =
          cross_padding_mask(Len(r.decoder_ids), r.encoder_ids)
    /\ MasksExactly(r.applied[depth + k].calls.cross_attn.mask, r.encoder_ids, FALSE)

(* C22: at every point of a forward call the layers applied so far are the *)
(* encoder layers in index order, each fed the output of the one before,   *)
(* followed, only once every encoder layer has run, by the decoder layers  *)
(* in index order; the cross-attention of every decoder layer takes keys   *)
(* and values from the output of the last encoder layer, queries from the  *)
(* decoder states, and the mask of the encoder padding only; at the return *)
(* every layer has run once.                                               *)
C22_BlocksInOrder ==
    IsSome(run) =>
        /\ Len(run[1].applied) <= 2 * Len(run[1].t.encoder_layers)
        /\ \A k \in 1..Len(run[1].applied) :
              IF k <= Len(run[1].t.encoder_layers)
              THEN IsEncoderBlock(run[1], k)
              ELSE IsDecoderBlock(run[1], Len(run[1].t.encoder_layers),
                                  k - Len(run[1].t.encoder_layers))
        /\ run[1].pc = "returned" =>
              Len(run[1].applied) = 2 * Len(run[1].t.encoder_layers)

\* a call on three layers has returned: the second decoder layer attended
\* to the output of the third encoder layer
C22_Witness ==
    /\ IsSome(run)
    /\ run[1].pc = "returned"
    /\ Len(run[1].t.encoder_layers) = 3
    /\ Len(run[1].applied) = 6
    /\ run[1].applied[5].layer = <<"decoder_layers", 2>>
    /\ run[1].applied[5].calls.cross_attn.key = <<"encoder_layers", 3>>
    /\ run[1].decoder_states.shape = <<Len(run[1].decoder_ids), MaxDim>>
    /\ \E k \in 1..Len(run[1].encoder_ids) : run[1].encoder_ids[k] = token_id("Padding")

\* the positions 0 .. n - 1
Positions(n) == [k \in 1..n |-> k - 1]

(* C23: in every forward call on a transformer both sanitized streams are  *)
(* at most max_seq_len long, every row of the positional-encoding table    *)
(* that embed reads has an index below max_seq_len, inside the table, and  *)
(* the rows read for a stream are its positions 0, 1, 2, ... themselves:   *)
(* the modulo in embed changes none of them.                               *)
C23_PositionsInsideTable ==
    (IsTransformer /\ fwd.outcome # "none") =>
        /\ Len(fwd.encoder_ids) <= model[1].max_seq_len
        /\ Len(fwd.decoder_ids) <= model[1].max_seq_len
        /\ \A k \in 1..Len(fwd.pos_rows) :
              /\ fwd.pos_rows[k] < model[1].max_seq_len
              /\ fwd.pos_rows[k] < model[1].transformer[1].positional_encoding[1]
        /\ IsSome(fwd.masks) =>
              fwd.pos_rows = Positions(Len(fwd.encoder_ids)) \o Positions(Len(fwd.decoder_ids))

\* forward returned on an input as long as max_seq_len: the decoder
\* stream was truncated, and the last table row was read for both streams
C23_Witness ==
    /\ IsTransformer /\ fwd.outcome = "returned"
    /\ model[1].max_seq_len = 2
    /\ Len(fwd.input) = 2
    /\ Len(fwd.decoder_ids) = 2
    /\ fwd.pos_rows = <<0, 1, 0, 1>>

----------------------------------------------------------------------------
(* The head loop of MultiHeadAttention::forward as a state machine: one    *)
(* step per head. att holds the attention module, the head the loop is at, *)
(* the slices taken so far and, for every column of context, the heads     *)
(* that have written it (every row of weights holds a non-zero weight, so  *)
(* with a query and a key every column of a head's slice is written).      *)

MaxWidth == 6

\* slices that advance by one column per head
head_slice_stride_one(a, head) == [start |-> head, end |-> head + a.head_dim]

\* let start = head * self.head_dim; let end = start + self.head_dim
head_slice(a, head) ==
    [start |-> head * a.head_dim, end |-> head * a.head_dim + a.head_dim]

\* context[[i, start + d]] += ... for d in 0..self.head_dim
write_context(writers, slice, head) ==
    [c \in DOMAIN writers |->
        IF slice.start <= c /\ c < slice.end THEN writers[c] \cup {head} ELSE writers[c]]

head_iteration(r, slice) ==
    [r EXCEPT !.slices = Append(@, slice),
              !.writers = write_context(@, slice, r.head),
              !.head = @ + 1]

\* forward is entered on a module of some width and head count
AttentionBegin ==
    /\ att = None
    /\ \E d_model \in 0..MaxWidth, nhead \in 1..MaxWidth :
          att' = Some([a |-> MultiHeadAttention_new(d_model, nhead),
                       pc |-> "heads", head |-> 0, slices |-> <<>>,
                       writers |-> [c \in 0..(d_model - 1) |-> {}]])
    /\ UNCHANGED <<sm, lex, run, ds, twin>>
    /\ UNCHANGED facade_vars
    /\ UNCHANGED tokenizer_vars

\* for head in 0..self.nhead: one iteration
HeadBlock ==
    /\ IsSome(att)
    /\ att[1].pc = "heads"
    /\ att[1].head < att[1].a.nhead
    /\ att' = Some(head_iteration(att[1], head_slice(att[1].a, att[1].head)))
    /\ UNCHANGED <<sm, lex, run, ds, twin>>
    /\ UNCHANGED facade_vars
    /\ UNCHANGED tokenizer_vars

\* the head loop is left: context.dot(&self.w_o) + &self.b_o
AttentionReturn ==
    /\ IsSome(att)
    /\ att[1].pc = "heads"
    /\ att[1].head >= att[1].a.nhead
    /\ att' = Some([att[1] EXCEPT !.pc = "returned"])
    /\ UNCHANGED <<sm, lex, run, ds, twin>>
    /\ UNCHANGED facade_vars
    /\ UNCHANGED tokenizer_vars

HeadNext == AttentionBegin \/ HeadBlock \/ AttentionReturn

HeadSpec == Init /\ [][HeadNext]_vars

IsUniformRow(row) == row = uniform(Len(row))

(* C26: in every forward call on a transformer with vocab_size >= 2 and    *)
(* max_seq_len >= 1 the first decoder id is not the padding id; column 0   *)
(* of the combined decoder mask is 0.0 in every row, so every row of the   *)
(* decoder self-attention has an unmasked key, and in every layer and head *)
(* its masked keys get the weight 0 instead of the uniform fallback.       *)
C26_DecoderRowsNeverFullyMasked ==
    (IsTransformer /\ model[1].vocab_size >= 2 /\ model[1].max_seq_len >= 1
        /\ fwd.outcome # "none") =>
        /\ Len(fwd.decoder_ids) >= 1
        /\ fwd.decoder_ids[1] # token_id("Padding")
        /\ IsSome(fwd.masks)
        /\ \A i \in 1..Len(fwd.decoder_ids) :
              fwd.masks[1].decoder_mask.at[i, 1] = ZERO
        /\ \A l \in 1..Len(fwd.attention.decoder_self) :
              \A head \in 1..Len(fwd.attention.decoder_self[l]) :
                 \A i, j \in 1..Len(fwd.decoder_ids) :
                    fwd.masks[1].decoder_mask.at[i, j] = NEG_INFINITY =>
                       IsZeroWeight(fwd.attention.decoder_self[l][head][i][j])

\* forward returned on an input of two padding ids: the last decoder row
\* sees the start id only and gives it its whole weight
C26_Witness ==
    /\ IsTransformer /\ fwd.outcome = "returned"
    /\ fwd.input = <<token_id("Padding"), token_id("Padding")>>
    /\ Len(fwd.decoder_ids) = 3
    /\ fwd.masks[1].decoder_mask.at[3, 2] = NEG_INFINITY
    /\ fwd.masks[1].decoder_mask.at[3, 3] = NEG_INFINITY
    /\ ~IsUniformRow(fwd.attention.decoder_self[1][1][3])
    /\ IsZeroWeight(fwd.attention.decoder_self[1][1][3][3])
    /\ IsUniformRow(fwd.attention.cross[1][1][3])

\* the weights of one attention put 0 on every padding key of ids
PaddingKeysGetZero(weights, ids) ==
    \A head \in 1..Len(weights) : \A i \in 1..Len(weights[head]) :
        \A j \in 1..Len(ids) :
            ids[j] = token_id("Padding") => IsZeroWeight(weights[head][i][j])

\* every row of the weights of one attention is uniform
AllRowsUniform(weights) ==
    \A head \in 1..Len(weights) : \A i \in 1..Len(weights[head]) :
        IsUniformRow(weights[head][i])

HasNonPadding(ids) == \E k \in 1..Len(ids) : ids[k] # token_id("Padding")

(* C27: in every forward call that returns on a transformer, a sanitized   *)
(* encoder id is the padding id only where the input id is; if some        *)
(* encoder id is not padding, every padding key gets the weight 0 in every *)
(* row, head and layer of the encoder self-attention and of the decoder    *)
(* cross-attention; if all are padding, every row of both is uniform.      *)
C27_PaddingKeysGetZeroWeight ==
    (IsTransformer /\ fwd.outcome = "returned") =>
        /\ \A k \in 1..Len(fwd.encoder_ids) :
              fwd.encoder_ids[k] = token_id("Padding") => fwd.input[k] = token_id("Padding")
        /\ HasNonPadding(fwd.encoder_ids) =>
              /\ \A l \in 1..Len(fwd.attention.encoder) :
                    PaddingKeysGetZero(fwd.attention.encoder[l], fwd.encoder_ids)
              /\ \A l \in 1..Len(fwd.attention.cross) :
                    PaddingKeysGetZero(fwd.attention.cross[l], fwd.encoder_ids)
        /\ ~HasNonPadding(fwd.encoder_ids) =>
              /\ \A l \in 1..Len(fwd.attention.encoder) :
                    AllRowsUniform(fwd.attention.encoder[l])
              /\ \A l \in 1..Len(fwd.attention.cross) :
                    AllRowsUniform(fwd.attention.cross[l])

\* forward returned on an input of a padding id after an id out of range:
\* the remapped id keeps the whole weight of the padding query's row and of
\* the cross-attention rows
C27_Witness ==
    /\ IsTransformer /\ fwd.outcome = "returned"
    /\ Len(fwd.input) = 2
    /\ fwd.input[1] >= model[1].vocab_size
    /\ fwd.encoder_ids = <<token_id("Unknown"), token_id("Padding")>>
    /\ IsZeroWeight(fwd.attention.encoder[1][2][2][2])
    /\ ~IsZeroWeight(fwd.attention.encoder[1][2][2][1])
    /\ IsZeroWeight(fwd.attention.cross[1][2][3][2])

----------------------------------------------------------------------------
(* Further claims about the tokenizer.                                     *)

(* C25: whatever the max_length of the tokenizer, a tokenize call returns  *)
(* every token of the scan of its text, an encode call one id per token it *)
(* was given, and an encode_text call one id per token of the scan: none   *)
(* is cut at max_length and none is padded up to it.                       *)
C25_TokenizerNeverTruncates ==
    \A obj \in Objects :
        /\ IsCall("tokenize", obj) =>
              last[1].result = tokenize(Object(obj)[1].lowercase, last[1].arg)
        /\ IsCall("encode", obj) => Len(last[1].result) = Len(last[1].arg)
        /\ IsCall("encode_text", obj) =>
              /\ Len(last[1].result)
                    = Len(tokenize(Object(obj)[1].lowercase, last[1].arg))
              /\ \A k \in 1..Len(last[1].result) :
                    last[1].result[k] # token_id("Padding")

\* encode_text on a tokenizer of max_length 1 has returned two ids
C25_Witness ==
    /\ IsCall("encode_text", "tok")
    /\ tok[1].max_length = 1
    /\ Len(last[1].result) = 2
    /\ fits >= 1
    /\ last[1].result[1] >= 4

\* the number of times `token` occurs among `tokens`
TimesIn(token, tokens) ==
    Cardinality({k \in 1..Len(tokens) : tokens[k] = token})

\* the larger of 1 and min_freq
Floor(min_freq) == IF min_freq >= 1 THEN min_freq ELSE 1

\* the tokens a fit call on tokenizer t with these arguments has to add
Due(t, texts, min_freq) ==
    LET all == corpus_tokens(t, texts)
    IN  {token \in Range(all) :
            /\ token \notin DOMAIN t.vocab
            /\ TimesIn(token, all) >= Floor(min_freq)}

\* a step in which fit acts on the tokenizer
FitStep ==
    /\ last = None
    /\ IsSome(tok)
    /\ IsSome(last')
    /\ last'[1].op = "fit"
    /\ last'[1].obj = "tok"

\* C28: a fit call adds exactly the tokens that the vocabulary lacks and that
\* occur at least max(1, min_freq) times in the corpus of this call, gives
\* them the next sequential ids and keeps every older entry; occurrences of
\* earlier calls do not count, and a second fit of the same corpus with the
\* same min_freq changes nothing
C28_FitCountsOnlyItsOwnCorpus ==
    [][FitStep =>
        LET before == tok[1]
            after == tok'[1]
            texts == last'[1].arg.texts
            min_freq == last'[1].arg.min_freq
            added == Due(before, texts, min_freq)
        IN  /\ DOMAIN after.vocab = DOMAIN before.vocab \cup added
            /\ \A token \in DOMAIN before.vocab : after.vocab[token] = before.vocab[token]
            /\ {after.vocab[token] : token \in added}
                 = before.next_id .. (before.next_id + Cardinality(added) - 1)
            /\ after.next_id = before.next_id + Cardinality(added)
            /\ WGSLTokenizer_fit(after, texts, min_freq) = {after}]_vars

\* the second fit call, with min_freq 2 on a corpus that holds x once, has not
\* added x although the corpus of the first call held x as well
C28_Witness ==
    /\ IsCall("fit", "tok")
    /\ fits = 2
    /\ loaded = None
    /\ last[1].arg.min_freq = 2
    /\ Len(last[1].arg.texts) = 1
    /\ <<"x">> \in DOMAIN last[1].result
    /\ last[1].result[<<"x">>] = 1
    /\ \E token \in seen : token \notin DOMAIN last[1].result
    /\ <<"x">> \notin DOMAIN tok[1].vocab

-----------------------------------------------------------------------------
(* Claims about the dataset.                                               *)

\* the number of examples of a dataset
DatasetLen(d) == d[2] - d[1]

\* the larger of the binary scales of two ratios
Scale(a, b) ==
    IF a.e >= 0 /\ b.e >= 0 THEN 0
    ELSE IF a.e < b.e THEN 0 - a.e ELSE 0 - b.e

\* the sum of two ratios is at most 1
SumAtMostOne(a, b) ==
    a.m * Pow2(a.e + Scale(a, b)) + b.m * Pow2(b.e + Scale(a, b)) <= Pow2(Scale(a, b))

\* floor(total * ratio) as split computes it: the f32 product without its
\* fraction
SizeOf(total, ratio) == f32_as_usize(f32_mul(usize_as_f32(total), ratio))

\* C29: for ratios in [0, 1] whose sum is at most 1, split returns; train is
\* the first floor(total * train_ratio) examples, val the next
\* floor(total * val_ratio), test the rest, their lengths add up to total
\* and the source dataset is as it was
C29_SplitPartitionsTheExamples ==
    (IsSome(ds) /\ SumAtMostOne(ds[1].train_ratio, ds[1].val_ratio)) =>
        /\ ds[1].result.outcome = "returned"
        /\ ds[1].result.train = <<0, SizeOf(ds[1].total, ds[1].train_ratio)>>
        /\ DatasetLen(ds[1].result.val) = SizeOf(ds[1].total, ds[1].val_ratio)
        /\ ds[1].result.val[1] = ds[1].result.train[2]
        /\ ds[1].result.test = <<ds[1].result.val[2], ds[1].total>>
        /\ ds[1].result.test[1] <= ds[1].result.test[2]
        /\ DatasetLen(ds[1].result.train) + DatasetLen(ds[1].result.val)
             + DatasetLen(ds[1].result.test) = ds[1].total
        /\ ds[1].examples = <<0, ds[1].total>>

-----------------------------------------------------------------------------
(* Claims about the construction of the model.                             *)

\* the tensors hold consecutive ranges of the samples of one generator of
\* seed 42, the first tensor from the first sample on
DrawnInOrder(parameters) ==
    \A k \in 1..Len(parameters) :
        /\ parameters[k].seed = 42
        /\ parameters[k].first = IF k = 1 THEN 0
                                 ELSE parameters[k - 1].first + parameters[k - 1].count

====
